---------------------------- MODULE Spec2Model ----------------------------
(***************************************************************************)
(* A model of the Cyberspace monster-pack generator: the seeded xorshift32 *)
(* stream (src/rng.js), the document loader and validator                  *)
(* (src/dataLoader.js), the scaling formulas (formulas.js) and the spawn   *)
(* pipeline (src/spawn.js).                                                *)
(*                                                                         *)
(* Encoding of JavaScript values:                                          *)
(*   - a JSON object is a record, a JSON array a is the record             *)
(*     [arr |-> <<...>>] (Array.isArray is the test for the key "arr"),    *)
(*     sequences are 1-based and error paths print the 0-based index;      *)
(*   - a 32-bit word is the pair [hi, lo] of its 16-bit halves, because    *)
(*     TLC's integers are 32-bit signed;                                   *)
(*   - multipliers are tenths (15 is 1.5), tier probabilities are          *)
(*     thousandths, dps is kept in hundredths; arithmetic on them is       *)
(*     exact rational arithmetic.                                          *)
(***************************************************************************)
EXTENDS Integers, Sequences, FiniteSets, TLC

(***************************************************************************)
(* Bounds of the model.                                                    *)
(***************************************************************************)
\* Number of loadAllData / spawnPack calls made during one process lifetime.
MaxCalls == 3
\* Of the six fetches a call issues, at most this many are still outstanding
\* when another event (a call, a response, a deployment) happens.
MaxSlow == 1
\* Number of times the served documents change during the process lifetime.
MaxDeploys == 1
\* Number of draws made from the stream a pure function is applied to.
MaxDraws == 3
\* Number of Spawn-to-World clicks made during one process lifetime.
MaxWorldClicks == 2

(***************************************************************************)
(* The state of the process (the objects are described with the actions).  *)
(***************************************************************************)
VARIABLES
  server,    \* location -> version the server has now
  deploys,   \* number of changes of the served documents so far
  cache,     \* location -> cached object (NoEntry: cache.has is false)
  phase,     \* call -> "idle", "loading", "running", "resolved", "rejected"
  call,      \* call -> what was called, with its arguments
  fetch,     \* call -> location -> "none", "hit", "pending", "ok", "fail"
  got,       \* call -> location -> what its loadJSON resolved with
  outcome,   \* call -> what the caller received
  stage,     \* history: call -> where it ended: "retrieval", "validation", "spawn", "done"
  trace,     \* history: call -> what the spawnPack run did inside
  fetches,   \* history: location -> number of fetch requests issued
  writes,    \* history: location -> number of cache.set calls
  firstOk,   \* history: snapshot of the first loadAllData that succeeded
  startedAt, \* history: call -> what held when it started
  probe,     \* a stream, the inputs and the last result of a function applied to it
  ui         \* main.js: the buttons, lastSpawn, the handler in flight, the world

procVars == <<server, deploys, cache, phase, call, fetch, got, outcome, stage, trace,
              fetches, writes, firstOk, startedAt>>
vars == <<server, deploys, cache, phase, call, fetch, got, outcome, stage, trace,
          fetches, writes, firstOk, startedAt, probe, ui>>

(***************************************************************************)
(* 32-bit words as pairs of 16-bit halves.                                 *)
(***************************************************************************)
HalfWord == 2^16

W(hi, lo) == [hi |-> hi, lo |-> lo]

RECURSIVE XorBits(_, _, _)
\* Bitwise exclusive or of the low n bits of a and b.
XorBits(a, b, n) ==
  IF n = 0 THEN 0
  ELSE ((a + b) % 2) + 2 * XorBits(a \div 2, b \div 2, n - 1)

\* x ^ y on 32-bit words.
Xor32(x, y) == W(XorBits(x.hi, y.hi, 16), XorBits(x.lo, y.lo, 16))

\* x << 13, x >>> 17 and x << 5 on 32-bit words.
Shl13(x) == W(((x.hi * 8192) % HalfWord) + (x.lo \div 8), (x.lo * 8192) % HalfWord)
Shr17(x) == W(0, x.hi \div 2)
Shl5(x) == W(((x.hi * 32) % HalfWord) + (x.lo \div 2048), (x.lo * 32) % HalfWord)

\* floor(s * n / 2^32) for a word s and 0 <= n < 2^15: Math.floor(next() * n),
\* where next() = s / 2^32 and the product is exact in a double.
ScaleFloor(s, n) == ((s.hi * n) + ((s.lo * n) \div HalfWord)) \div HalfWord

(***************************************************************************)
(* src/rng.js: the deterministic stream.  An RNG value is the closure      *)
(* state of one createRNG call: the 32-bit word `state` and, as a history, *)
(* the number of draws made from it.                                       *)
(***************************************************************************)
Alphabet == "abcdefghijklmnopqrstuvwxyz"
Digits == "0123456789"

\* Position (1-based) of the one-character string ch in str, 0 when absent.
IndexIn(ch, str) ==
  IF \E i \in 1..Len(str) : SubSeq(str, i, i) = ch
  THEN CHOOSE i \in 1..Len(str) : SubSeq(str, i, i) = ch
  ELSE 0

\* str.charCodeAt(i) for the characters the model's strings use.
charCodeAt(str, i) ==
  LET ch == SubSeq(str, i, i) IN
  IF IndexIn(ch, Alphabet) > 0 THEN 96 + IndexIn(ch, Alphabet)
  ELSE IF IndexIn(ch, Digits) > 0 THEN 47 + IndexIn(ch, Digits)
  ELSE IF ch = "-" THEN 45
  ELSE 95

\* normalizeSeed on an integer n with |n| < 2^31: n mod 2^32 as a word.
normalizeSeed(n) ==
  IF n >= 0 THEN W(n \div HalfWord, n % HalfWord)
  ELSE W((HalfWord - 1) - (((-n) - 1) \div HalfWord),
         (HalfWord - 1) - (((-n) - 1) % HalfWord))

RECURSIVE hashFrom(_, _, _)
\* The loop of hashString from character i on: h = Math.imul(31, h) + c | 0.
hashFrom(h, str, i) ==
  IF i > Len(str) THEN h
  ELSE LET lo == (31 * h.lo) + charCodeAt(str, i)
           hi == (31 * h.hi) + (lo \div HalfWord)
       IN hashFrom(W(hi % HalfWord, lo % HalfWord), str, i + 1)

hashString(str) == hashFrom(W(0, 0), str, 1)

\* Variant: a seed that normalises to 0 is replaced by 1.
SeedWordNonZero(seed) ==
  IF "str" \in DOMAIN seed
  THEN (IF hashString(seed.str) = W(0, 0) THEN W(0, 1) ELSE hashString(seed.str))
  ELSE IF "num" \in DOMAIN seed /\ seed.num # 0 THEN normalizeSeed(seed.num)
  ELSE W(0, 1)

\* Seeds are tagged: [str |-> "abc"], [num |-> 7], and [nan |-> TRUE] for a
\* value that is neither a string nor numeric (Number(seed) || 0 is 0).
SeedWord(seed) ==
  IF "str" \in DOMAIN seed THEN hashString(seed.str)
  ELSE IF "num" \in DOMAIN seed THEN normalizeSeed(seed.num)
  ELSE normalizeSeed(0)

\* Variant: one stream for the whole module instead of one per call; a call
\* made after another has drawn goes on from where that one stopped.
createRNGShared(seed) ==
  LET drawn == {c \in DOMAIN trace : trace[c].rng.draws > 0} IN
  IF drawn = {} THEN [state |-> SeedWord(seed), draws |-> 0]
  ELSE [state |-> trace[CHOOSE c \in drawn : \A b \in drawn : b <= c].rng.state,
        draws |-> 0]

createRNG(seed) == [state |-> SeedWord(seed), draws |-> 0]

\* The three xorshift steps of next().
XorShl13(s) == Xor32(s, Shl13(s))
XorShr17(s) == Xor32(s, Shr17(s))
XorShl5(s) == Xor32(s, Shl5(s))
xorshift(s) == XorShl5(XorShr17(XorShl13(s)))

\* next(): the stream after one draw; the float it returns is state / 2^32.
next(rng) == [state |-> xorshift(rng.state), draws |-> rng.draws + 1]

\* The double Infinity (JSON.parse gives it for a number such as 1e999), as
\* an integer; every finite number of the documents is below it.
Infinity == 1000000000

\* rng.int(min, max) on integer bounds: the stream after the draw and the value.
IntFrom(r, lo, hi) == [rng |-> r, val |-> ScaleFloor(r.state, hi - lo) + lo]
rngInt(rng, min, max) ==
  IF min > max THEN IntFrom(next(rng), max, min) ELSE IntFrom(next(rng), min, max)

\* Variant: a bound is cut towards 0.
FloorBoundTrunc(b) ==
  IF "num" \in DOMAIN b THEN (IF b.num < 0 THEN -((-b.num) \div 2) ELSE b.num \div 2) ELSE 0

\* A bound of int: typeof b !== 'number' gives 0, Math.floor otherwise; a
\* number is given in halves.
FloorBound(b) == IF "num" \in DOMAIN b THEN b.num \div 2 ELSE 0

\* rng.int(min, max) on any bounds.
int(rng, min, max) == rngInt(rng, FloorBound(min), FloorBound(max))

\* mobileJoystick.js: the second int; with equal bounds it makes no draw.
IntStrictOf(rng, lo, hi) ==
  IF lo = hi THEN [rng |-> rng, val |-> lo] ELSE IntFrom(next(rng), lo, hi)
intStrict(rng, min, max) ==
  IF FloorBound(min) > FloorBound(max)
  THEN IntStrictOf(rng, FloorBound(max), FloorBound(min))
  ELSE IntStrictOf(rng, FloorBound(min), FloorBound(max))

\* The weight pickWeighted gives an item.
PosWeight(item) == IF item.weight > 0 THEN item.weight ELSE 0

RECURSIVE SumWeights(_, _)
SumWeights(list, n) == IF n = 0 THEN 0 ELSE SumWeights(list, n - 1) + PosWeight(list[n])

\* The scan of pickWeighted: the first position whose running sum exceeds r,
\* the last position when there is none.
WeightedScan(list, r) ==
  IF \E i \in 1..Len(list) : r < SumWeights(list, i)
  THEN CHOOSE i \in 1..Len(list) :
         /\ r < SumWeights(list, i)
         /\ \A j \in 1..(i - 1) : ~(r < SumWeights(list, j))
  ELSE Len(list)

\* rng.pickWeighted(list): idx = 0 stands for undefined.  The comparison
\* next() * total < sum is made on floor(next() * total), which is
\* equivalent for integer weights.
PickFrom(r, list, total) ==
  [rng |-> r, idx |-> WeightedScan(list, ScaleFloor(r.state, total))]

\* Variant: with no positive weight, the last entry is picked.
PickOfLast(rng, list, total) ==
  IF total <= 0 THEN [rng |-> rng, idx |-> Len(list)] ELSE PickFrom(next(rng), list, total)

PickOf(rng, list, total) ==
  IF total <= 0 THEN [rng |-> rng, idx |-> 0] ELSE PickFrom(next(rng), list, total)
pickWeighted(rng, list) == PickOf(rng, list, SumWeights(list, Len(list)))

(***************************************************************************)
(* mobileJoystick.js: the second pickWeighted of the repository.  It throws *)
(* where the one of rng.js returns undefined, and it takes the weights as   *)
(* they are.                                                                *)
(***************************************************************************)
\* The first position whose weight is refused (negative), 0 when there is none.
InvalidAt(list) ==
  IF \E i \in 1..Len(list) : list[i].weight < 0
  THEN CHOOSE i \in 1..Len(list) :
         list[i].weight < 0 /\ \A j \in 1..(i - 1) : ~(list[j].weight < 0)
  ELSE 0

RECURSIVE SumAll(_, _)
SumAll(list, n) == IF n = 0 THEN 0 ELSE SumAll(list, n - 1) + list[n].weight

\* Variant: the scan stops at an entry whose weight equals the rest of r.
RECURSIVE StrictScanInclusive(_, _, _)
StrictScanInclusive(list, r, i) ==
  IF i > Len(list) THEN Len(list)
  ELSE IF r <= list[i].weight THEN i
  ELSE StrictScanInclusive(list, r - list[i].weight, i + 1)

\* The scan from position i with r left: r < w returns, r -= w goes on; the
\* last position when the list is exhausted.  r is floor(next() * total).
RECURSIVE StrictScan(_, _, _)
StrictScan(list, r, i) ==
  IF i > Len(list) THEN Len(list)
  ELSE IF r < list[i].weight THEN i
  ELSE StrictScan(list, r - list[i].weight, i + 1)

StrictFrom(r, list, total) ==
  [err |-> "", rng |-> r, idx |-> StrictScan(list, ScaleFloor(r.state, total), 1)]
StrictThrown(rng, msg) == [err |-> msg, rng |-> rng, idx |-> 0]
StrictOf(rng, list, bad, total) ==
  IF Len(list) = 0 THEN StrictThrown(rng, "[rng] pickWeighted: empty list")
  ELSE IF bad # 0
  THEN StrictThrown(rng, "[rng] pickWeighted: invalid weight at index " \o ToString(bad - 1))
  ELSE IF total <= 0 THEN StrictThrown(rng, "[rng] pickWeighted: total weight <= 0")
  ELSE StrictFrom(next(rng), list, total)
pickWeightedStrict(rng, list) == StrictOf(rng, list, InvalidAt(list), SumAll(list, Len(list)))

\* floor(s * 10^9 / 2^32) = floor(s * 5^9 / 2^23), by 11-bit limbs: the integer
\* Math.floor(next() * 1e9) of cryptoRandomLike (the product has at most 53
\* bits, so the double is exact).
ScaleFloorE9(s) ==
  LET a == s.hi \div 64
      b == ((s.hi % 64) * 32) + (s.lo \div 2048)
      c == s.lo % 2048
      k1 == 953
      k0 == 1381
      t0 == c * k0
      t1 == (c * k1) + (b * k0)
      t2 == (b * k1) + (a * k0)
      t3 == a * k1
      r1 == (t0 \div 2048) + t1
  IN ((r1 \div 2048) + t2 + (2048 * t3)) \div 2

RECURSIVE toString36(_)
\* Number.prototype.toString(36) for n >= 0.
toString36(n) ==
  LET d == n % 36
      ch == IF d < 10 THEN SubSeq(Digits, d + 1, d + 1) ELSE SubSeq(Alphabet, d - 9, d - 9)
  IN IF n < 36 THEN ch ELSE toString36(n \div 36) \o ch

(***************************************************************************)
(* formulas.js: the scaling formulas.                                      *)
(***************************************************************************)
RES_KEYS == <<"laser", "plasma", "ion", "kinetic">>
ResKeySet == {RES_KEYS[i] : i \in 1..Len(RES_KEYS)}

\* A(s) is the JSON array with the elements of s.
A(s) == [arr |-> s]
isArray(v) == "arr" \in DOMAIN v

\* map[key] when it is a number, else 0.
NumAt(map, key) == IF key \in DOMAIN map THEN map[key] ELSE 0

\* Math.round(n / d) for d > 0: floor(n / d + 1/2).
Round(n, d) == ((2 * n) + d) \div (2 * d)

clamp(n, lo, hi) == IF n < lo THEN lo ELSE IF n > hi THEN hi ELSE n

\* rollZoneLevel: err = "" and the rolled level, or the error thrown.
LevelFrom(d) == [err |-> "", rng |-> d.rng, val |-> d.val]
\* Variant: the draw is made with max + 2.
rollZoneLevelWide(zone, difficulty, rng) ==
  IF ~(difficulty \in DOMAIN zone.level_range)
  THEN [err |-> "rollZoneLevel: missing level_range for difficulty " \o difficulty,
        rng |-> rng, val |-> 0]
  ELSE LevelFrom(rngInt(rng, zone.level_range[difficulty].arr[1],
                        zone.level_range[difficulty].arr[2] + 2))

rollZoneLevel(zone, difficulty, rng) ==
  IF ~(difficulty \in DOMAIN zone.level_range)
  THEN [err |-> "rollZoneLevel: missing level_range for difficulty " \o difficulty,
        rng |-> rng, val |-> 0]
  ELSE LET range == zone.level_range[difficulty] IN
       IF ~isArray(range) \/ Len(range.arr) # 2
       THEN [err |-> "rollZoneLevel: missing level_range for difficulty " \o difficulty,
             rng |-> rng, val |-> 0]
       ELSE IF range.arr[1] > range.arr[2]
       THEN [err |-> "rollZoneLevel: level range min greater than max",
             rng |-> rng, val |-> 0]
       ELSE LevelFrom(rngInt(rng, range.arr[1], range.arr[2] + 1))

\* Variant: the bonus of `extra` is left out.
computeMonsterLevelNoExtra(zoneLevel, monsterDef, tierDef, extra) ==
  zoneLevel + NumAt(monsterDef, "base_level_offset") + NumAt(tierDef, "level_bonus")

computeMonsterLevel(zoneLevel, monsterDef, tierDef, extra) ==
  zoneLevel + NumAt(monsterDef, "base_level_offset") + NumAt(tierDef, "level_bonus")
            + NumAt(extra, "level_bonus")

\* extra && extra.k ? extra.k : 1, in tenths.
ExtraMult(extra, k) == IF k \in DOMAIN extra /\ extra[k] # 0 THEN extra[k] ELSE 10

\* scaleStats.  diff multipliers are hundredths, tier and extra multipliers
\* tenths; hp and def are integers, dps is in hundredths (to2).
scaleStats(base, zoneLevel, monsterLevel, diff, tier, extra) ==
  LET levelDiff == IF monsterLevel - zoneLevel > 0 THEN monsterLevel - zoneLevel ELSE 0
      hpNum == diff.hp_mult * tier.hp_mult * (10 + levelDiff) * ExtraMult(extra, "hp_mult")
      dpsNum == diff.dmg_mult * tier.dps_mult * (100 + (8 * levelDiff)) * ExtraMult(extra, "dps_mult")
      defNum == diff.def_mult * tier.def_mult * (100 + (6 * levelDiff)) * ExtraMult(extra, "def_mult")
  IN [hp |-> Round(base.hp * hpNum, 100000),
      dps |-> Round(base.dps * dpsNum, 10000),
      def |-> Round(base.def * defNum, 1000000)]

combineResists(baseRes, diffBonus, affixRes) ==
  [key \in ResKeySet |-> NumAt(baseRes, key) + NumAt(diffBonus, key) + NumAt(affixRes, key)]

\* Variant: the values are clamped to [-100, 100].
clampResistsTo100(resMap) ==
  [map |-> [key \in DOMAIN resMap |-> clamp(resMap[key], -100, 100)],
   immune |-> SelectSeq(RES_KEYS, LAMBDA key : key \in DOMAIN resMap /\ resMap[key] >= 100)]

\* clampResists: the clamped map and the immune types in key order.
clampResists(resMap) ==
  [map |-> [key \in DOMAIN resMap |-> clamp(resMap[key], -100, 99)],
   immune |-> SelectSeq(RES_KEYS, LAMBDA key : key \in DOMAIN resMap /\ resMap[key] >= 100)]

\* A probability map is the list of its entries [id, w] in key order
\* (Object.entries); w is in thousandths.
RECURSIVE SumW(_, _)
SumW(items, n) == IF n = 0 THEN 0 ELSE SumW(items, n - 1) + items[n].w

\* pickTierId: err = "" and the tier id, or the error thrown.  r < acc, with
\* acc the sum of w / total, is decided as floor(r * total) < sum of w.
TierHit(items, x) ==
  IF \E i \in 1..Len(items) : x < SumW(items, i)
  THEN CHOOSE i \in 1..Len(items) :
         /\ x < SumW(items, i)
         /\ \A j \in 1..(i - 1) : ~(x < SumW(items, j))
  ELSE Len(items)
TierFrom(r, items, total) ==
  [err |-> "", rng |-> r, id |-> items[TierHit(items, ScaleFloor(r.state, total))].id]
TierOf(rng, items, total) ==
  IF total <= 0 THEN [err |-> "pickTierId: no positive weights", rng |-> rng, id |-> ""]
  ELSE TierFrom(next(rng), items, total)
TierAmong(rng, items) == TierOf(rng, items, SumW(items, Len(items)))
\* Variant: an override map without a positive weight gives way to the
\* default map.
pickTierIdFallback(defaultProbs, zoneOverrideProbs, rng) ==
  TierAmong(rng, SelectSeq(IF \E i \in 1..Len(zoneOverrideProbs) : zoneOverrideProbs[i].w > 0
                           THEN zoneOverrideProbs ELSE defaultProbs,
                           LAMBDA e : e.w > 0))

pickTierId(defaultProbs, zoneOverrideProbs, rng) ==
  TierAmong(rng, SelectSeq(IF Len(zoneOverrideProbs) > 0 THEN zoneOverrideProbs
                           ELSE defaultProbs,
                           LAMBDA e : e.w > 0))

(***************************************************************************)
(* src/spawn.js: the spawn pipeline.                                       *)
(***************************************************************************)
\* Array.prototype.find by id: the first position whose record has the id,
\* 0 for undefined.
FindById(list, id) ==
  IF \E i \in 1..Len(list) : list[i].id = id
  THEN CHOOSE i \in 1..Len(list) :
         /\ list[i].id = id
         /\ \A j \in 1..(i - 1) : list[j].id # id
  ELSE 0

\* mergeDifficulty: a fresh object; the multipliers of the result are in
\* hundredths (a missing override multiplies by 1).
mergeDifficulty(diff, o) ==
  LET mult(k) == IF k \in DOMAIN o THEN diff[k] * o[k] ELSE diff[k] * 10
      ob == IF "res_bonus" \in DOMAIN o THEN o.res_bonus ELSE [x \in {} |-> 0]
      keys == DOMAIN diff.res_bonus \cup (DOMAIN ob \cap ResKeySet)
  IN [id |-> diff.id,
      hp_mult |-> mult("hp_mult"),
      dmg_mult |-> mult("dmg_mult"),
      def_mult |-> mult("def_mult"),
      affix_pool |-> diff.affix_pool,
      res_bonus |-> [k \in keys |->
                       IF k \in DOMAIN ob THEN NumAt(diff.res_bonus, k) + ob[k]
                       ELSE diff.res_bonus[k]]]

\* pool.splice(idx, 1) for a 1-based position.
RemoveAt(seq, i) == SubSeq(seq, 1, i - 1) \o SubSeq(seq, i + 1, Len(seq))

RECURSIVE rollLoop(_, _, _, _)
\* Variant: the picked affix stays in the working copy.
rollNextKeep(pool, c, d, res) ==
  rollLoop(pool, c - 1, d.rng,
           Append(res, [id |-> pool[d.val + 1].id, mods |-> pool[d.val + 1].mods]))

\* One pick of the loop of rollAffixes, d being the rng.int(0, pool.length)
\* drawn for it.
rollNext(pool, c, d, res) ==
  rollLoop(RemoveAt(pool, d.val + 1), c - 1, d.rng,
           Append(res, [id |-> pool[d.val + 1].id, mods |-> pool[d.val + 1].mods]))

\* The loop of rollAffixes: c more picks from the working copy `pool`.
rollLoop(pool, c, rng, res) ==
  IF c = 0 THEN [rng |-> rng, res |-> res]
  ELSE rollNext(pool, c, rngInt(rng, 0, Len(pool)), res)

\* rollAffixes on an integer count.
rollAffixes(affixPool, count, rng) ==
  LET c0 == IF count > 0 THEN count ELSE 0
      c1 == IF Len(affixPool) = 0 /\ c0 > 0 THEN 0 ELSE c0
      c == IF c1 > Len(affixPool) THEN Len(affixPool) ELSE c1
  IN rollLoop(affixPool, c, rng, <<>>)

\* Variant: ids numbered by a counter of the module (the calls made so far)
\* instead of drawn from the stream of the call.
cryptoRandomLikeCounter(rng) ==
  [rng |-> rng,
   val |-> "u-" \o ToString(Cardinality({c \in DOMAIN phase : phase[c] # "idle"}))]

IdFrom(r) == [rng |-> r, val |-> "u-" \o toString36(ScaleFloorE9(r.state))]

\* Variant: an id takes two draws.
cryptoRandomLikeTwice(rng) == IdFrom(next(next(rng)))

cryptoRandomLike(rng) == IdFrom(next(rng))

\* s[0].toUpperCase() + s.slice(1) for lower-case ids.
capitalize(str) ==
  IF Len(str) = 0 THEN str
  ELSE LET i == IndexIn(SubSeq(str, 1, 1), Alphabet)
           up == "ABCDEFGHIJKLMNOPQRSTUVWXYZ"
       IN IF i = 0 THEN str ELSE SubSeq(up, i, i) \o SubSeq(str, 2, Len(str))

RECURSIVE SumMods(_, _, _)
SumMods(affixes, key, n) ==
  IF n = 0 THEN 0 ELSE SumMods(affixes, key, n - 1) + NumAt(affixes[n].mods, key)

\* sumAffixRes: a key is present once an affix contributes a non-zero value.
sumAffixRes(affixes) ==
  LET keys == {k \in ResKeySet : \E n \in 1..Len(affixes) : NumAt(affixes[n].mods, k) # 0}
  IN [k \in keys |-> SumMods(affixes, k, Len(affixes))]

\* buildUnitInstance: err = "" and the unit, or the error thrown.  `extra`
\* always carries affixPool; affixCount and the minion fields are optional.
\* The function is written as its steps, last step first, each an operator
\* that takes what the steps before it computed.

\* The unit returned (spawn.js 214-227), uid being the id drawn last.
UnitFrom(m, tierId, level, stats, clamped, requested, rolled, uid) ==
  [err |-> "",
   rng |-> uid.rng,
   requested |-> requested,
   unit |-> [id |-> uid.val,
             monster_id |-> m.id,
             name |-> capitalize(m.id) \o " " \o tierId,
             tier |-> tierId,
             level |-> level,
             stats |-> stats,
             resists |-> clamped.map,
             flags |-> [immune |-> clamped.immune],
             affixes |-> rolled.res,
             ai |-> m.ai,
             lootTable |-> IF tierId = "unique" \/ tierId = "boss"
                           THEN "elite_creep" ELSE "common_creep"]]

\* The unit once its level is computed (spawn.js 199-213).
UnitAtLevel(m, tierId, tier, zoneLevel, level, diff, extra, requested, rolled) ==
  UnitFrom(m, tierId, level,
           scaleStats([hp |-> m.base_hp, dps |-> m.base_dps, def |-> m.base_def],
                      zoneLevel, level, diff, tier, extra),
           clampResists(combineResists(m.base_res, diff.res_bonus, sumAffixRes(rolled.res))),
           requested, rolled, cryptoRandomLike(rolled.rng))

\* The unit once its affix count is known (spawn.js 195-197).
UnitCounted(m, tierId, tier, zoneLevel, diff, extra, cnt) ==
  UnitAtLevel(m, tierId, tier, zoneLevel, computeMonsterLevel(zoneLevel, m, tier, extra),
              diff, extra, cnt.val, rollAffixes(extra.affixPool, cnt.val, cnt.rng))

\* The unit once its tier is found (spawn.js 186-194).
UnitOfTier(m, tierId, tier, zoneLevel, diff, rng, extra) ==
  UnitCounted(m, tierId, tier, zoneLevel, diff, extra,
              IF "affixCount" \in DOMAIN extra
              THEN [rng |-> rng, val |-> extra.affixCount]
              ELSE rngInt(rng, tier.affix_count.arr[1], tier.affix_count.arr[2] + 1))

buildUnitInstance(m, tierId, zoneLevel, diff, data, rng, extra) ==
  IF FindById(data.tiers.arr, tierId) = 0
  THEN [err |-> "buildUnitInstance: tier '" \o tierId \o "' not found", rng |-> rng]
  ELSE UnitOfTier(m, tierId, data.tiers.arr[FindById(data.tiers.arr, tierId)], zoneLevel,
                  diff, rng, extra)

\* The extra of a minion (spawn.js 114-121).
MinionExtra(tier) ==
  [level_bonus |-> tier.minions.level_bonus,
   hp_mult |-> tier.minions.hp_mult,
   dps_mult |-> tier.minions.dps_mult,
   def_mult |-> tier.minions.def_mult,
   affixPool |-> <<>>,
   affixCount |-> 0]

RECURSIVE minionLoop(_, _, _, _, _, _, _)
\* Iteration i of the minion loop, b being the unit built in it: a throw
\* leaves the loop at once.
minionNext(i, count, monster, tier, zoneLevel, effDiff_data, acc, b) ==
  IF b.err # "" THEN [err |-> b.err, rng |-> b.rng, pack |-> acc.pack]
  ELSE minionLoop(i + 1, count, monster, tier, zoneLevel, effDiff_data,
                  [rng |-> b.rng, pack |-> Append(acc.pack, b.unit)])

\* Variant: the loop runs while i <= count.
minionLoopInclusive(i, count, monster, tier, zoneLevel, effDiff_data, acc) ==
  IF i > count THEN [err |-> "", rng |-> acc.rng, pack |-> acc.pack]
  ELSE minionNext(i, count, monster, tier, zoneLevel, effDiff_data, acc,
                  buildUnitInstance(monster, "normal", zoneLevel, effDiff_data.effDiff,
                                    effDiff_data.data, acc.rng, MinionExtra(tier)))

\* The minion loop from iteration i on.
minionLoop(i, count, monster, tier, zoneLevel, effDiff_data, acc) ==
  IF i >= count THEN [err |-> "", rng |-> acc.rng, pack |-> acc.pack]
  ELSE minionNext(i, count, monster, tier, zoneLevel, effDiff_data, acc,
                  buildUnitInstance(monster, "normal", zoneLevel, effDiff_data.effDiff,
                                    effDiff_data.data, acc.rng, MinionExtra(tier)))

defaultProbs ==
  <<[id |-> "normal", w |-> 860], [id |-> "champion", w |-> 100],
    [id |-> "unique", w |-> 35], [id |-> "boss", w |-> 5]>>

\* A seed the caller leaves out is "default" (seed ?? 'default').
SeedOrDefault(seed) == IF "undef" \in DOMAIN seed THEN [str |-> "default"] ELSE seed

\* What a spawnPack run hands to its caller and, as a history, what it did
\* inside: the local pack at the moment it returned or threw, the stream, the
\* rolled zone level and the picked ids.
\* Variant: a failure hands the units built so far to the caller.
ThrownPartial(msg, rng, pack, zoneLevel, tierId) ==
  [err |-> msg, pack |-> pack, built |-> pack, rng |-> rng,
   zoneLevel |-> zoneLevel, tierId |-> tierId]

Thrown(msg, rng, pack, zoneLevel, tierId) ==
  [err |-> msg, pack |-> <<>>, built |-> pack, rng |-> rng,
   zoneLevel |-> zoneLevel, tierId |-> tierId]

Returned(pack, rng, zoneLevel, tierId) ==
  [err |-> "", pack |-> pack, built |-> pack, rng |-> rng,
   zoneLevel |-> zoneLevel, tierId |-> tierId]

\* The function neither returns nor throws: it is in a loop without end,
\* `pack` being the units built at some point of it.
Endless(pack, rng, zoneLevel, tierId) ==
  [err |-> "", pack |-> <<>>, built |-> pack, rng |-> rng,
   zoneLevel |-> zoneLevel, tierId |-> tierId, endless |-> TRUE]

\* spawnPack after `await loadAllData()` has yielded `data`: the synchronous
\* rest of the function, written as its steps, last step first.

\* spawn.js 93-95: the affixes of the pool that exist.
AffixPool(data, ids) ==
  LET found == SelectSeq(ids, LAMBDA id : FindById(data.affixes.arr, id) # 0)
  IN [i \in 1..Len(found) |-> data.affixes.arr[FindById(data.affixes.arr, found[i])]]

\* spawn.js 151: after the minion loop `rest`.
SpawnDone(zoneLevel, tierId, rest) ==
  IF rest.err # "" THEN Thrown(rest.err, rest.rng, rest.pack, zoneLevel, tierId)
  ELSE Returned(rest.pack, rest.rng, zoneLevel, tierId)

\* spawn.js 111-133: the minions, their number being cnt.
SpawnCounted(data, zoneLevel, monster, tierId, tier, effDiff, leader, cnt) ==
  SpawnDone(zoneLevel, tierId,
            minionLoop(0, cnt.val, monster, tier, zoneLevel,
                       [effDiff |-> effDiff, data |-> data],
                       [rng |-> cnt.rng, pack |-> <<leader.unit>>]))

\* spawn.js 112-133 for count = Infinity: i < count holds in every
\* iteration; the loop is left only by a throw of buildUnitInstance, which
\* does not depend on the iteration, b being the unit of the first one.
SpawnForever(zoneLevel, tierId, leader, b) ==
  IF b.err # "" THEN Thrown(b.err, b.rng, <<leader.unit>>, zoneLevel, tierId)
  ELSE Endless(<<leader.unit, b.unit>>, b.rng, zoneLevel, tierId)

\* spawn.js 111-133 for a count_range [minC, Infinity]: in rng.int,
\* Math.floor(Infinity) is Infinity and next() * (Infinity - minC) is
\* Infinity, or NaN when next() is 0 or minC is Infinity as well; the count
\* is Infinity, or NaN, and 0 < NaN is false.  r is the stream after the
\* draw.
SpawnUncounted(data, zoneLevel, monster, tierId, tier, effDiff, leader, r) ==
  IF r.state = W(0, 0) \/ tier.minions.count_range.arr[1] >= Infinity
  THEN Returned(<<leader.unit>>, r, zoneLevel, tierId)
  ELSE SpawnForever(zoneLevel, tierId, leader,
                    buildUnitInstance(monster, "normal", zoneLevel, effDiff, data, r,
                                      MinionExtra(tier)))

\* spawn.js 108-112: the pack with its leader.
SpawnMinions(data, zoneLevel, monster, tierId, tier, effDiff, leader) ==
  IF leader.err # "" THEN Thrown(leader.err, leader.rng, <<>>, zoneLevel, tierId)
  ELSE IF tierId = "unique" /\ "minions" \in DOMAIN tier
  THEN IF tier.minions.count_range.arr[2] >= Infinity
       THEN SpawnUncounted(data, zoneLevel, monster, tierId, tier, effDiff, leader,
                           next(leader.rng))
       ELSE SpawnCounted(data, zoneLevel, monster, tierId, tier, effDiff, leader,
                         rngInt(leader.rng, tier.minions.count_range.arr[1],
                                tier.minions.count_range.arr[2] + 1))
  ELSE Returned(<<leader.unit>>, leader.rng, zoneLevel, tierId)

\* spawn.js 93-105: the leader, in the merged difficulty effDiff.
SpawnLeader(data, zoneLevel, monster, tp, tier, diff, effDiff) ==
  SpawnMinions(data, zoneLevel, monster, tp.id, tier, effDiff,
               buildUnitInstance(monster, tp.id, zoneLevel, effDiff, data, tp.rng,
                                 [affixPool |-> AffixPool(data, diff.affix_pool.arr)]))

\* spawn.js 81-91: tier t and difficulty d, positions in their tables.
SpawnWith(data, zone, difficulty, zoneLevel, monster, tp, t, d) ==
  IF t = 0
  THEN Thrown("spawnPack: tier '" \o tp.id \o "' not found", tp.rng, <<>>, zoneLevel, tp.id)
  ELSE IF d = 0
  THEN Thrown("spawnPack: difficulty '" \o difficulty \o "' not found",
              tp.rng, <<>>, zoneLevel, tp.id)
  ELSE SpawnLeader(data, zoneLevel, monster, tp, data.tiers.arr[t], data.difficulties.arr[d],
                   mergeDifficulty(data.difficulties.arr[d],
                                   IF "difficulty_multipliers" \in DOMAIN zone
                                   THEN zone.difficulty_multipliers ELSE [x \in {} |-> 0]))

\* spawn.js 80-86: the tier picked is tp.
SpawnTier(data, zone, difficulty, zoneLevel, monster, tp) ==
  IF tp.err # "" THEN Thrown(tp.err, tp.rng, <<>>, zoneLevel, "")
  ELSE SpawnWith(data, zone, difficulty, zoneLevel, monster, tp,
                 FindById(data.tiers.arr, tp.id), FindById(data.difficulties.arr, difficulty))

\* spawn.js 74-80: the monster with id mid, m its position in the table.
SpawnMonster(data, zone, difficulty, zoneLevel, rng, mid, m) ==
  IF m = 0
  THEN Thrown("spawnPack: monster '" \o mid \o "' not found", rng, <<>>, zoneLevel, "")
  ELSE SpawnTier(data, zone, difficulty, zoneLevel, data.monsters.arr[m],
                 pickTierId(defaultProbs,
                            IF "tier_probs" \in DOMAIN zone THEN zone.tier_probs ELSE <<>>,
                            rng))

\* spawn.js 69-74: the spawn-table entry picked is pick.
SpawnPicked(data, zone, difficulty, zoneLevel, pick) ==
  IF pick.idx = 0
  THEN Thrown("spawnPack: failed to pick monster for zone '" \o zone.id \o "'",
              pick.rng, <<>>, zoneLevel, "")
  ELSE SpawnMonster(data, zone, difficulty, zoneLevel, pick.rng,
                    zone.spawn_table.arr[pick.idx].monster_id,
                    FindById(data.monsters.arr, zone.spawn_table.arr[pick.idx].monster_id))

\* spawn.js 67-69: the zone level rolled is lvl.
SpawnAtLevel(data, zone, difficulty, lvl) ==
  IF lvl.err # "" THEN Thrown(lvl.err, lvl.rng, <<>>, 0, "")
  ELSE SpawnPicked(data, zone, difficulty, lvl.val, pickWeighted(lvl.rng, zone.spawn_table.arr))

\* spawn.js 59-67: the zone, z its position in the table.
SpawnInZone(data, zoneId, difficulty, rng0, z) ==
  IF z = 0 THEN Thrown("spawnPack: zone '" \o zoneId \o "' not found", rng0, <<>>, 0, "")
  ELSE IF ~isArray(data.zones.arr[z].spawn_table)
          \/ Len(data.zones.arr[z].spawn_table.arr) = 0
  THEN Thrown("spawnPack: zone '" \o zoneId \o "' has empty spawn table", rng0, <<>>, 0, "")
  ELSE SpawnAtLevel(data, data.zones.arr[z], difficulty,
                    rollZoneLevel(data.zones.arr[z], difficulty, rng0))

spawnPack(data, zoneId, difficulty, seed) ==
  SpawnInZone(data, zoneId, difficulty, createRNG(SeedOrDefault(seed)),
              FindById(data.zones.arr, zoneId))

(***************************************************************************)
(* src/dataLoader.js: error paths and the validation of loadAllData.       *)
(* A context part is [str |-> s] or [num |-> i] (typeof part === 'number').*)
(* An error is the message of the Error thrown, "" stands for no error.    *)
(* JSON.stringify of the offending value is written "..." in a message.    *)
(***************************************************************************)
S(str) == [str |-> str]
N(i) == [num |-> i]

RECURSIVE formatRestDotted(_, _)
\* Variant: an index written as one more dotted part ("zones.0.spawn_table").
formatRestDotted(rest, i) ==
  IF i > Len(rest) THEN ""
  ELSE (IF i > 1 THEN "." ELSE "")
       \o (IF "num" \in DOMAIN rest[i] THEN ToString(rest[i].num) ELSE rest[i].str)
       \o formatRestDotted(rest, i + 1)

RECURSIVE formatRest(_, _)
\* The loop of formatPath over rest, from part i on.
formatRest(rest, i) ==
  IF i > Len(rest) THEN ""
  ELSE (IF "num" \in DOMAIN rest[i]
        THEN "[" \o ToString(rest[i].num) \o "]"
        ELSE (IF i > 1 THEN "." ELSE "") \o rest[i].str)
       \o formatRest(rest, i + 1)

formatPath(ctxParts) ==
  IF Len(ctxParts) = 0 THEN ""
  ELSE "[" \o Head(ctxParts).str \o "]"
       \o (IF Len(ctxParts) > 1 THEN " " \o formatRest(Tail(ctxParts), 1) ELSE "")

fail(ctx, message) == formatPath(ctx) \o " " \o message

\* The first of the keys (in order) that obj lacks, as assertKey's error.
assertKeys(obj, keys, ctx) ==
  IF \A i \in 1..Len(keys) : keys[i] \in DOMAIN obj THEN ""
  ELSE LET i == CHOOSE i \in 1..Len(keys) :
                  /\ keys[i] \notin DOMAIN obj
                  /\ \A j \in 1..(i - 1) : keys[j] \in DOMAIN obj
       IN fail(Append(ctx, S(keys[i])), "missing key '" \o keys[i] \o "'")

assertArray(arr, ctx) == IF isArray(arr) THEN "" ELSE fail(ctx, "must be array, got: ...")

\* forEach: of the errors the records give (in order), the first one.
FirstOf(errs) ==
  IF \A i \in 1..Len(errs) : errs[i] = "" THEN ""
  ELSE errs[CHOOSE i \in 1..Len(errs) : errs[i] # "" /\ \A j \in 1..(i - 1) : errs[j] = ""]

\* A [min,max] pair: shape, then order.
rangeErr(r, ctx) ==
  IF ~isArray(r) \/ Len(r.arr) # 2 THEN fail(ctx, "must be [min,max] array, got: ...")
  ELSE IF r.arr[1] > r.arr[2]
  THEN fail(ctx, "invalid: " \o ToString(r.arr[1]) \o " > " \o ToString(r.arr[2]))
  ELSE ""

difficultyErr(d, i) ==
  LET c == <<S("difficulties.json"), S("difficulties"), N(i)>>
      e == assertKeys(d, <<"id", "hp_mult", "dmg_mult", "def_mult", "res_bonus", "affix_pool">>, c)
  IN IF e # "" THEN e ELSE assertArray(d.affix_pool, Append(c, S("affix_pool")))

monsterErr(m, i) ==
  assertKeys(m, <<"id", "role", "base_level_offset", "base_hp", "base_dps", "base_def",
                  "base_res", "ai">>,
             <<S("monsters.json"), S("monsters"), N(i)>>)

\* mods must be an object: here, not an array.
affixErr(a, i) ==
  LET c == <<S("affixes.json"), S("affixes"), N(i)>>
      e == assertKeys(a, <<"id", "mods">>, c)
  IN IF e # "" THEN e
     ELSE IF isArray(a.mods) THEN fail(Append(c, S("mods")), "must be object, got: ...")
     ELSE ""

minionsErr(t, c) ==
  LET mc == Append(c, S("minions"))
      e1 == assertKeys(t.minions, <<"count_range">>, mc)
  IN IF e1 # "" THEN e1
     ELSE LET e2 == rangeErr(t.minions.count_range, Append(mc, S("count_range")))
          IN IF e2 # "" THEN e2
             ELSE assertKeys(t.minions, <<"level_bonus", "hp_mult", "dps_mult", "def_mult">>, mc)

tierErr(t, i) ==
  LET c == <<S("tiers.json"), S("tiers"), N(i)>>
      e1 == assertKeys(t, <<"id", "level_bonus", "hp_mult", "dps_mult", "def_mult",
                            "affix_count">>, c)
  IN IF e1 # "" THEN e1
     ELSE LET e2 == rangeErr(t.affix_count, Append(c, S("affix_count")))
          IN IF e2 # "" THEN e2
             ELSE IF "minions" \in DOMAIN t THEN minionsErr(t, c) ELSE ""

levelRangeErr(lr, d, c) ==
  LET e == assertKeys(lr, <<d>>, Append(c, S("level_range")))
  IN IF e # "" THEN e ELSE rangeErr(lr[d], c \o <<S("level_range"), S(d)>>)

spawnEntryErr(entry, c, j) ==
  assertKeys(entry, <<"monster_id", "weight">>, c \o <<S("spawn_table"), N(j)>>)

zoneErr(z, i) ==
  LET c == <<S("zones.json"), S("zones"), N(i)>>
      ds == <<"normal", "nightmare", "hell">>
      e1 == assertKeys(z, <<"id", "name", "level_range">>, c)
  IN IF e1 # "" THEN e1
     ELSE LET e2 == FirstOf([k \in 1..3 |-> levelRangeErr(z.level_range, ds[k], c)])
          IN IF e2 # "" THEN e2
             ELSE LET e3 == assertKeys(z, <<"spawn_table">>, c)
                  IN IF e3 # "" THEN e3
                     ELSE LET e4 == assertArray(z.spawn_table, Append(c, S("spawn_table")))
                          IN IF e4 # "" THEN e4
                             ELSE FirstOf([j \in 1..Len(z.spawn_table.arr) |->
                                            spawnEntryErr(z.spawn_table.arr[j], c, j - 1)])

lootErr(t, i) ==
  LET c == <<S("lootTables.json"), S("tables"), N(i)>>
      e1 == assertKeys(t, <<"id", "rolls", "entries">>, c)
  IN IF e1 # "" THEN e1
     ELSE LET e2 == assertArray(t.entries, Append(c, S("entries")))
          IN IF e2 # "" THEN e2
             ELSE FirstOf([j \in 1..Len(t.entries.arr) |->
                            assertKeys(t.entries.arr[j], <<"group", "weight">>,
                                       c \o <<S("entries"), N(j - 1)>>)])

\* One table each: assertArray on the document, then forEach record.
difficultiesErr(doc) ==
  LET e == assertArray(doc, <<S("difficulties.json"), S("difficulties")>>)
  IN IF e # "" THEN e ELSE FirstOf([i \in 1..Len(doc.arr) |-> difficultyErr(doc.arr[i], i - 1)])

monstersErr(doc) ==
  LET e == assertArray(doc, <<S("monsters.json"), S("monsters")>>)
  IN IF e # "" THEN e ELSE FirstOf([i \in 1..Len(doc.arr) |-> monsterErr(doc.arr[i], i - 1)])

affixesErr(doc) ==
  LET e == assertArray(doc, <<S("affixes.json"), S("affixes")>>)
  IN IF e # "" THEN e ELSE FirstOf([i \in 1..Len(doc.arr) |-> affixErr(doc.arr[i], i - 1)])

tiersErr(doc) ==
  LET e == assertArray(doc, <<S("tiers.json"), S("tiers")>>)
  IN IF e # "" THEN e ELSE FirstOf([i \in 1..Len(doc.arr) |-> tierErr(doc.arr[i], i - 1)])

zonesErr(doc) ==
  LET e == assertArray(doc, <<S("zones.json"), S("zones")>>)
  IN IF e # "" THEN e ELSE FirstOf([i \in 1..Len(doc.arr) |-> zoneErr(doc.arr[i], i - 1)])

lootTablesErr(doc) ==
  LET e == assertArray(doc, <<S("lootTables.json"), S("tables")>>)
  IN IF e # "" THEN e ELSE FirstOf([i \in 1..Len(doc.arr) |-> lootErr(doc.arr[i], i - 1)])

IdSet(list) == {list[i].id : i \in 1..Len(list)}

\* Variant: the monster ids of the spawn tables are not checked.
monsterRefErrNone(zones, monsters) == ""

\* Cross-check 1: spawn-table monster ids (dataLoader.js 218-225).
monsterRefErr(zones, monsters) ==
  FirstOf([i \in 1..Len(zones) |->
    FirstOf([j \in 1..Len(zones[i].spawn_table.arr) |->
      IF zones[i].spawn_table.arr[j].monster_id \in IdSet(monsters) THEN ""
      ELSE fail(<<S("zones.json"), S("zones"), N(i - 1), S("spawn_table"), N(j - 1),
                  S("monster_id")>>,
                "'" \o zones[i].spawn_table.arr[j].monster_id \o "' not found in monsters")])])

\* Cross-check 2: affix-pool ids (dataLoader.js 227-234).
affixRefErr(difficulties, affixes) ==
  FirstOf([i \in 1..Len(difficulties) |->
    FirstOf([j \in 1..Len(difficulties[i].affix_pool.arr) |->
      IF difficulties[i].affix_pool.arr[j] \in IdSet(affixes) THEN ""
      ELSE fail(<<S("difficulties.json"), S("difficulties"), N(i - 1), S("affix_pool"),
                  N(j - 1)>>,
                "unknown affix '" \o difficulties[i].affix_pool.arr[j] \o "'")])])

\* The last check (dataLoader.js 236-245): the minions range of tier 'unique'.
uniqueErr(tiers) ==
  LET u == FindById(tiers, "unique") IN
  IF u = 0 \/ "minions" \notin DOMAIN tiers[u] THEN ""
  ELSE LET cr == tiers[u].minions.count_range IN
       IF ~isArray(cr) \/ Len(cr.arr) # 2 \/ cr.arr[1] > cr.arr[2]
       THEN fail(<<S("tiers.json"), S("tiers"), N(u - 1), S("minions"), S("count_range")>>,
                 "invalid: ...")
       ELSE ""

\* The checks of loadAllData after the six documents have arrived, in the
\* order of the code: the error thrown, or "".
validate(d) ==
  LET e1 == difficultiesErr(d.difficulties) IN
  IF e1 # "" THEN e1 ELSE
  LET e2 == monstersErr(d.monsters) IN
  IF e2 # "" THEN e2 ELSE
  LET e3 == affixesErr(d.affixes) IN
  IF e3 # "" THEN e3 ELSE
  LET e4 == tiersErr(d.tiers) IN
  IF e4 # "" THEN e4 ELSE
  LET e5 == zonesErr(d.zones) IN
  IF e5 # "" THEN e5 ELSE
  LET e6 == lootTablesErr(d.loot_tables) IN
  IF e6 # "" THEN e6 ELSE
  LET e7 == monsterRefErr(d.zones.arr, d.monsters.arr) IN
  IF e7 # "" THEN e7 ELSE
  LET e8 == affixRefErr(d.difficulties.arr, d.affixes.arr) IN
  IF e8 # "" THEN e8 ELSE uniqueErr(d.tiers.arr)

(***************************************************************************)
(* The served documents.  Each location has a few versions; version 1 is   *)
(* the valid, mutually consistent one.                                     *)
(***************************************************************************)
EmptyObj == <<>>

Paths ==
  <<"/data/difficulties.json", "/data/zones.json", "/data/monsters.json",
    "/data/tiers.json", "/data/affixes.json", "/data/lootTables.json">>
PathSet == {Paths[i] : i \in 1..Len(Paths)}

DiffNormal(pool) ==
  [id |-> "normal", hp_mult |-> 10, dmg_mult |-> 10, def_mult |-> 10,
   res_bonus |-> EmptyObj, affix_pool |-> pool]
DiffHell ==
  [id |-> "hell", hp_mult |-> 20, dmg_mult |-> 15, def_mult |-> 15,
   res_bonus |-> [laser |-> 20, plasma |-> 20, ion |-> 20, kinetic |-> 20],
   affix_pool |-> A(<<"shielded", "volatile", "armored", "shielded">>)]

DifficultiesDocs ==
  << A(<<DiffNormal(A(<<"shielded", "volatile">>)), DiffHell>>),
     \* an affix id that affixes.json lacks
     A(<<DiffNormal(A(<<"shielded", "ghost">>)), DiffHell>>),
     \* affix_pool is not an array
     A(<<DiffNormal([oops |-> 1]), DiffHell>>),
     \* an empty affix pool
     A(<<DiffNormal(A(<<>>)), DiffHell>>) >>

LevelRange(n, m, h) == [normal |-> A(n), nightmare |-> A(m), hell |-> A(h)]
Entry(id, w) == [monster_id |-> id, weight |-> w]

ZoneDocks(table) ==
  [id |-> "docks", name |-> "Docks",
   level_range |-> LevelRange(<<1, 3>>, <<5, 5>>, <<8, 9>>),
   spawn_table |-> A(table)]
ZoneVault(table, hellRange) ==
  [id |-> "vault", name |-> "Vault",
   level_range |-> LevelRange(<<2, 2>>, <<6, 7>>, hellRange),
   spawn_table |-> A(table),
   tier_probs |-> <<[id |-> "unique", w |-> 1000], [id |-> "boss", w |-> 0]>>,
   difficulty_multipliers |-> [hp_mult |-> 15, res_bonus |-> [laser |-> 90]]]
ZoneVoid ==
  [id |-> "void", name |-> "Void",
   level_range |-> LevelRange(<<1, 1>>, <<1, 1>>, <<1, 1>>),
   spawn_table |-> A(<<>>)]
ZoneSump ==
  [id |-> "sump", name |-> "Sump",
   level_range |-> LevelRange(<<4, 6>>, <<4, 6>>, <<4, 6>>),
   spawn_table |-> A(<<Entry("drone", 0), Entry("turret", -2)>>)]

DocksTable == <<Entry("drone", 3), Entry("turret", 1)>>
VaultTable == <<Entry("drone", 0), Entry("mech", 2)>>

ZonesDocs ==
  << A(<<ZoneDocks(DocksTable), ZoneVault(VaultTable, <<8, 9>>)>>),
     \* a zone whose spawn table is empty, and one whose weights are all <= 0
     A(<<ZoneDocks(DocksTable), ZoneVault(VaultTable, <<8, 9>>), ZoneVoid, ZoneSump>>),
     \* monster ids that monsters.json lacks: zones[0].spawn_table[1], zones[1].spawn_table[0]
     A(<<ZoneDocks(<<Entry("drone", 3), Entry("ghost", 1)>>),
         ZoneVault(<<Entry("wraith", 1), Entry("mech", 2)>>, <<8, 9>>)>>),
     \* a level range with min > max
     A(<<ZoneDocks(DocksTable), ZoneVault(VaultTable, <<9, 8>>)>>),
     \* a spawn-table entry without weight
     A(<<ZoneDocks(<<Entry("drone", 3), [monster_id |-> "turret"]>>)>>) >>

Monster(id, role, off, hp, dps, def, res) ==
  [id |-> id, role |-> role, base_level_offset |-> off, base_hp |-> hp,
   base_dps |-> dps, base_def |-> def, base_res |-> res, ai |-> role]

Drone == Monster("drone", "swarm", 0, 10, 5, 2, [laser |-> 10])
Turret == Monster("turret", "sentry", 1, 20, 8, 5, [kinetic |-> 50, ion |-> -130])
Mech == Monster("mech", "brute", 2, 30, 12, 9, [laser |-> 10, plasma |-> 79, kinetic |-> 40])

MonstersDocs ==
  << A(<<Drone, Turret, Mech>>),
     \* no mech: zones[1].spawn_table[1] of the valid zones dangles
     A(<<Drone, Turret>>),
     \* a record without ai
     A(<<Drone, [id |-> "turret", role |-> "sentry", base_level_offset |-> 1,
                 base_hp |-> 20, base_dps |-> 8, base_def |-> 5,
                 base_res |-> EmptyObj]>>) >>

Tier(id, bonus, hp, dps, def, ac) ==
  [id |-> id, level_bonus |-> bonus, hp_mult |-> hp, dps_mult |-> dps,
   def_mult |-> def, affix_count |-> A(ac)]

TierNormal == Tier("normal", 0, 10, 10, 10, <<0, 0>>)
TierChampion == Tier("champion", 1, 15, 12, 12, <<1, 2>>)
TierBoss == Tier("boss", 3, 30, 20, 20, <<3, 3>>)
TierUnique(cr) ==
  [id |-> "unique", level_bonus |-> 2, hp_mult |-> 20, dps_mult |-> 15,
   def_mult |-> 15, affix_count |-> A(<<2, 3>>),
   minions |-> [count_range |-> A(cr), level_bonus |-> -1, hp_mult |-> 5,
                dps_mult |-> 5, def_mult |-> 0]]

TiersDocs ==
  << A(<<TierNormal, TierChampion, TierUnique(<<1, 2>>), TierBoss>>),
     \* no tier 'normal' (nothing in loadAllData asks for one)
     A(<<TierChampion, TierUnique(<<1, 2>>), TierBoss>>),
     \* a minion count range with min > max
     A(<<TierNormal, TierChampion, TierUnique(<<2, 1>>), TierBoss>>),
     \* tier 'unique' without minions, tier 'champion' with minions
     A(<<TierNormal,
         [id |-> "champion", level_bonus |-> 1, hp_mult |-> 15, dps_mult |-> 12,
          def_mult |-> 12, affix_count |-> A(<<1, 2>>),
          minions |-> [count_range |-> A(<<2, 2>>), level_bonus |-> 0, hp_mult |-> 10,
                       dps_mult |-> 10, def_mult |-> 10]],
         Tier("unique", 2, 20, 15, 15, <<2, 3>>), TierBoss>>),
     \* tier 'normal' with a level bonus and affixes, a pack may have no minion
     A(<<Tier("normal", 1, 10, 10, 10, <<0, 1>>), TierChampion, TierUnique(<<0, 1>>),
         TierBoss>>),
     \* a minion count range [1, 1e999]
     A(<<TierNormal, TierChampion, TierUnique(<<1, Infinity>>), TierBoss>>) >>

AffixesDocs ==
  << A(<<[id |-> "shielded", mods |-> [laser |-> 30, plasma |-> 30]],
         [id |-> "volatile", mods |-> [speed |-> 10]],
         [id |-> "armored", mods |-> [kinetic |-> 60]]>>),
     \* mods is an array
     A(<<[id |-> "shielded", mods |-> A(<<"laser">>)],
         [id |-> "volatile", mods |-> [speed |-> 10]],
         [id |-> "armored", mods |-> [kinetic |-> 60]]>>) >>

Loot(id, entries) == [id |-> id, rolls |-> 1, entries |-> entries]

LootTablesDocs ==
  << A(<<Loot("common_creep", A(<<[group |-> "scrap", weight |-> 1]>>)),
         Loot("elite_creep", A(<<[group |-> "core", weight |-> 1]>>))>>),
     \* the document is an object, not a list
     [tables |-> A(<<>>)] >>

\* All versions of the document at location p.
Versions(p) ==
  CASE p = "/data/difficulties.json" -> DifficultiesDocs
    [] p = "/data/zones.json" -> ZonesDocs
    [] p = "/data/monsters.json" -> MonstersDocs
    [] p = "/data/tiers.json" -> TiersDocs
    [] p = "/data/affixes.json" -> AffixesDocs
    [] p = "/data/lootTables.json" -> LootTablesDocs

\* JSON.parse of the text of version v of the document at p.
Parsed(p, v) == Versions(p)[v]

(***************************************************************************)
(* The process: the module-level cache of dataLoader.js and the calls of   *)
(* loadAllData and spawnPack made during its lifetime.                     *)
(*                                                                         *)
(* An object is written [src |-> c, ver |-> v]: the value JSON.parse       *)
(* returned to call c (the identity of the object; a call parses a         *)
(* location at most once) holding version v of the document.               *)
(***************************************************************************)
Calls == 1..MaxCalls

NoEntry == [src |-> 0, ver |-> 0]
NoSnapshot == [p \in PathSet |-> NoEntry]
NoCall == [kind |-> "", zoneId |-> "", difficulty |-> "", seed |-> [undef |-> TRUE]]
NoOutcome == [err |-> "", snapshot |-> NoSnapshot, pack |-> <<>>]
NoTrace == [err |-> "", pack |-> <<>>, built |-> <<>>,
            rng |-> [state |-> W(0, 0), draws |-> 0], zoneLevel |-> 0, tierId |-> ""]
NoStage == ""
NoStart == [firstOk |-> NoSnapshot, invalidSeen |-> FALSE, server |-> [p \in PathSet |-> 0]]
\* main.js 34: lastSpawn is null or an array of units.
NullSpawn == [isNull |-> TRUE, pack |-> <<>>]
\* The controller when the script starts: main() has not loaded yet, no
\* handler is registered, the buttons are enabled, nothing is in the world.
NoUi == [main |-> "idle", ready |-> FALSE, spawnDisabled |-> FALSE, worldDisabled |-> FALSE,
         lastSpawn |-> NullSpawn, pending |-> 0, args |-> NoCall, latest |-> 0,
         world |-> <<>>, refused |-> <<>>]
ProbeOps == {"pickWeighted", "pickWeightedStrict", "pickTierId", "int", "intStrict"}
NoResult == [done |-> FALSE, before |-> [state |-> W(0, 0), draws |-> 0],
             after |-> [state |-> W(0, 0), draws |-> 0], idx |-> 0, err |-> "", id |-> "",
             val |-> 0]
NoLast == [op \in ProbeOps |-> NoResult]
NoProbe == [list |-> <<>>, override |-> <<>>, default |-> <<>>,
            min |-> [num |-> 0], max |-> [num |-> 0], seed |-> [undef |-> TRUE],
            rng |-> [state |-> W(0, 0), draws |-> 0], last |-> NoLast]

\* The six tables a snapshot holds, by the names loadAllData gives them.
Tables(snap) ==
  [difficulties |-> Parsed(Paths[1], snap[Paths[1]].ver),
   zones |-> Parsed(Paths[2], snap[Paths[2]].ver),
   monsters |-> Parsed(Paths[3], snap[Paths[3]].ver),
   tiers |-> Parsed(Paths[4], snap[Paths[4]].ver),
   affixes |-> Parsed(Paths[5], snap[Paths[5]].ver),
   loot_tables |-> Parsed(Paths[6], snap[Paths[6]].ver)]

\* The ways a retrieval fails in loadJSON, and the Error each one throws.
FailKinds == {"fetch failed", "HTTP", "read error", "parse error"}

loadError(p, kind) ==
  "[" \o p \o "] " \o (IF kind = "HTTP" THEN "HTTP 404 Not Found" ELSE kind \o ": ...")

\* loadAllData once Promise.all has resolved with `snap`: the validation,
\* then the frozen result.
LoadResult(snap, e) ==
  IF e # "" THEN [err |-> e, snapshot |-> NoSnapshot]
  ELSE [err |-> "", snapshot |-> snap]
loadAllData(snap) == LoadResult(snap, validate(Tables(snap)))

\* What the caller of call k receives once its six documents are there, and
\* what the run did inside (spawnPack: await loadAllData(), then the rest).
SettleSpawned(r) ==
  [out |-> [err |-> r.err, snapshot |-> NoSnapshot, pack |-> r.pack],
   trace |-> r,
   stage |-> IF "endless" \in DOMAIN r THEN "minions"
             ELSE IF r.err = "" THEN "done" ELSE "spawn"]
SettleLoaded(k, l) ==
  IF l.err # "" THEN [out |-> [err |-> l.err, snapshot |-> NoSnapshot, pack |-> <<>>],
                      trace |-> NoTrace, stage |-> "validation"]
  ELSE IF k.kind = "loadAllData"
  THEN [out |-> [err |-> "", snapshot |-> l.snapshot, pack |-> <<>>],
        trace |-> NoTrace, stage |-> "done"]
  ELSE SettleSpawned(spawnPack(Tables(l.snapshot), k.zoneId, k.difficulty, k.seed))
Settle(k, snap) == SettleLoaded(k, loadAllData(snap))

\* The loadAllData of call c (its own, or the one its spawnPack awaited)
\* has succeeded.
Loaded(c) == stage[c] \in {"spawn", "minions", "done"}

\* A validation failure has been seen by some call.
InvalidSeen == \E c \in Calls : stage[c] = "validation"

\* A call is in a loop without end: the one thread of the page is taken, no
\* other code of the page runs, neither a handler nor the continuation of
\* an await.
Hung == \E c \in Calls : phase[c] = "running"

\* The settling of call c with documents g, or its entering a loop without
\* end: phase, outcome, stage, trace, firstOk.
Finish(c, k, g) ==
  \E r \in {Settle(k, g)} :
  /\ phase' = [phase EXCEPT ![c] = IF r.stage = "minions" THEN "running"
                                   ELSE IF r.out.err = "" THEN "resolved" ELSE "rejected"]
  /\ outcome' = [outcome EXCEPT ![c] = r.out]
  /\ stage' = [stage EXCEPT ![c] = r.stage]
  /\ trace' = [trace EXCEPT ![c] = r.trace]
  /\ firstOk' = IF firstOk = NoSnapshot /\ r.stage \in {"spawn", "minions", "done"} THEN g ELSE firstOk

\* Variant: a call that fails in its spawn work drops the loaded documents
\* from the cache.
StartEvicting(c, k, slow) ==
  /\ ~Hung
  /\ phase[c] = "idle"
  /\ \A b \in Calls : b < c => phase[b] # "idle"
  /\ slow \subseteq {p \in PathSet : cache[p] = NoEntry}
  /\ Cardinality(slow) <= MaxSlow
  /\ LET cached == {p \in PathSet : cache[p] # NoEntry}
         fast == (PathSet \ cached) \ slow
         g == [p \in PathSet |->
                 IF p \in cached THEN cache[p]
                 ELSE IF p \in fast THEN [src |-> c, ver |-> server[p]]
                 ELSE NoEntry]
     IN /\ call' = [call EXCEPT ![c] = k]
        /\ fetch' = [fetch EXCEPT ![c] =
                       [p \in PathSet |-> IF p \in cached THEN "hit"
                                          ELSE IF p \in fast THEN "ok" ELSE "pending"]]
        /\ got' = [got EXCEPT ![c] = g]
        /\ fetches' = [p \in PathSet |-> IF p \in cached THEN fetches[p] ELSE fetches[p] + 1]
        /\ writes' = [p \in PathSet |-> IF p \in fast THEN writes[p] + 1 ELSE writes[p]]
        /\ startedAt' = [startedAt EXCEPT ![c] =
                           [firstOk |-> firstOk, invalidSeen |-> InvalidSeen,
                            server |-> server]]
        /\ IF slow = {}
           THEN /\ Finish(c, k, g)
                /\ cache' = IF stage'[c] = "spawn" THEN NoSnapshot
                            ELSE [p \in PathSet |-> IF p \in fast THEN g[p] ELSE cache[p]]
           ELSE /\ phase' = [phase EXCEPT ![c] = "loading"]
                /\ cache' = [p \in PathSet |-> IF p \in fast THEN g[p] ELSE cache[p]]
                /\ UNCHANGED <<outcome, stage, trace, firstOk>>
  /\ UNCHANGED <<probe, ui>>
  /\ UNCHANGED <<server, deploys>>

\* Call c is made: loadAllData runs its six loadJSON calls up to their first
\* await.  A cached location resolves with the cached object; every other
\* one is fetched.  The responses of the locations outside `slow` arrive, and
\* are parsed and cached, before anything else happens; if none is then
\* outstanding the call settles in the same turn.
Start(c, k, slow) ==
  /\ ~Hung
  /\ phase[c] = "idle"
  /\ \A b \in Calls : b < c => phase[b] # "idle"
  /\ slow \subseteq {p \in PathSet : cache[p] = NoEntry}
  /\ Cardinality(slow) <= MaxSlow
  /\ LET cached == {p \in PathSet : cache[p] # NoEntry}
         fast == (PathSet \ cached) \ slow
         g == [p \in PathSet |->
                 IF p \in cached THEN cache[p]
                 ELSE IF p \in fast THEN [src |-> c, ver |-> server[p]]
                 ELSE NoEntry]
     IN /\ call' = [call EXCEPT ![c] = k]
        /\ fetch' = [fetch EXCEPT ![c] =
                       [p \in PathSet |-> IF p \in cached THEN "hit"
                                          ELSE IF p \in fast THEN "ok" ELSE "pending"]]
        /\ got' = [got EXCEPT ![c] = g]
        /\ cache' = [p \in PathSet |-> IF p \in fast THEN g[p] ELSE cache[p]]
        /\ fetches' = [p \in PathSet |-> IF p \in cached THEN fetches[p] ELSE fetches[p] + 1]
        /\ writes' = [p \in PathSet |-> IF p \in fast THEN writes[p] + 1 ELSE writes[p]]
        /\ startedAt' = [startedAt EXCEPT ![c] =
                           [firstOk |-> firstOk, invalidSeen |-> InvalidSeen,
                            server |-> server]]
        /\ IF slow = {}
           THEN Finish(c, k, g)
           ELSE /\ phase' = [phase EXCEPT ![c] = "loading"]
                /\ UNCHANGED <<outcome, stage, trace, firstOk>>
  /\ UNCHANGED <<probe, ui>>
  /\ UNCHANGED <<server, deploys>>

\* The response for location p arrives at call c and parses: loadJSON
\* freezes the value, stores it in the cache and resolves.  If it was the
\* last one outstanding of a call still loading, Promise.all resolves and
\* the call settles.
FetchOk(c, p) ==
  /\ ~Hung
  /\ fetch[c][p] = "pending"
  /\ LET obj == [src |-> c, ver |-> server[p]]
         g == [got[c] EXCEPT ![p] = obj]
     IN /\ fetch' = [fetch EXCEPT ![c][p] = "ok"]
        /\ got' = [got EXCEPT ![c] = g]
        /\ cache' = [cache EXCEPT ![p] = obj]
        /\ writes' = [writes EXCEPT ![p] = @ + 1]
        /\ IF phase[c] = "loading" /\ \A q \in PathSet \ {p} : fetch[c][q] \in {"hit", "ok"}
           THEN Finish(c, call[c], g)
           ELSE UNCHANGED <<phase, outcome, stage, trace, firstOk>>
  /\ UNCHANGED <<probe, ui>>
  /\ UNCHANGED <<server, deploys, call, fetches, startedAt>>

\* Variant: a failed retrieval is attempted again by the same call.
FetchFailRetry(c, p, kind) ==
  /\ ~Hung
  /\ fetch[c][p] = "pending"
  /\ fetches[p] <= MaxCalls
  /\ fetches' = [fetches EXCEPT ![p] = @ + 1]
  /\ UNCHANGED <<probe, ui>>
  /\ UNCHANGED <<server, deploys, cache, phase, call, fetch, got, outcome, stage, trace,
                 writes, firstOk, startedAt>>

\* The retrieval of location p fails for call c: loadJSON throws, and
\* Promise.all rejects with its error unless it has rejected before.
FetchFail(c, p, kind) ==
  /\ ~Hung
  /\ fetch[c][p] = "pending"
  /\ fetch' = [fetch EXCEPT ![c][p] = "fail"]
  /\ IF phase[c] = "loading"
     THEN /\ phase' = [phase EXCEPT ![c] = "rejected"]
          /\ outcome' = [outcome EXCEPT ![c] =
                           [err |-> loadError(p, kind), snapshot |-> NoSnapshot, pack |-> <<>>]]
          /\ stage' = [stage EXCEPT ![c] = "retrieval"]
     ELSE UNCHANGED <<phase, outcome, stage>>
  /\ UNCHANGED <<probe, ui>>
  /\ UNCHANGED <<server, deploys, cache, call, got, trace, fetches, writes, firstOk, startedAt>>

\* The environment replaces the document at location p by version v.
Deploy(p, v) ==
  /\ deploys < MaxDeploys
  /\ v # server[p]
  /\ server' = [server EXCEPT ![p] = v]
  /\ deploys' = deploys + 1
  /\ UNCHANGED <<probe, ui>>
  /\ UNCHANGED <<cache, phase, call, fetch, got, outcome, stage, trace, fetches, writes,
                 firstOk, startedAt>>

InitProcess(srv) ==
  /\ server = srv
  /\ deploys = 0
  /\ cache = NoSnapshot
  /\ phase = [c \in Calls |-> "idle"]
  /\ call = [c \in Calls |-> NoCall]
  /\ fetch = [c \in Calls |-> [p \in PathSet |-> "none"]]
  /\ got = [c \in Calls |-> NoSnapshot]
  /\ outcome = [c \in Calls |-> NoOutcome]
  /\ stage = [c \in Calls |-> NoStage]
  /\ trace = [c \in Calls |-> NoTrace]
  /\ fetches = [p \in PathSet |-> 0]
  /\ writes = [p \in PathSet |-> 0]
  /\ firstOk = NoSnapshot
  /\ startedAt = [c \in Calls |-> NoStart]
  /\ ui = NoUi

InitWith(srv) == InitProcess(srv) /\ probe = NoProbe

(***************************************************************************)
(* Specifications.                                                         *)
(***************************************************************************)
Version1 == [p \in PathSet |-> 1]
With(p, v) == [Version1 EXCEPT ![p] = v]

Load == [kind |-> "loadAllData", zoneId |-> "", difficulty |-> "", seed |-> [undef |-> TRUE]]
Spawn(z, d, sd) == [kind |-> "spawnPack", zoneId |-> z, difficulty |-> d, seed |-> sd]

SlowPaths == {Paths[2], Paths[3]}
SlowSets == {sl \in SUBSET SlowPaths : Cardinality(sl) <= MaxSlow}
AllServers == {srv \in [PathSet -> 1..5] : \A p \in PathSet : srv[p] <= Len(Versions(p))}

\* Spec: the process with overlapping calls, failing retrievals and changing
\* documents; few inputs.  The server starts with a zones document that
\* names unknown monsters and may be given the good one (and back).
SysServers == {With(Paths[2], 3)}
SysFails == {"HTTP", "parse error"}
SysDeploys == {<<Paths[2], 1>>, <<Paths[2], 3>>}
SysCalls ==
  {Load, Spawn("vault", "normal", [num |-> 7]), Spawn("docks", "hell", [undef |-> TRUE])}

\* A function applied to the stream of the probe: the stream moves on and
\* the last result of the function is kept with the stream before and after
\* it.
Applied(op, r) ==
  /\ probe' = [probe EXCEPT !.rng = r.rng,
                            !.last[op] = [done |-> TRUE, before |-> probe.rng,
                                          after |-> r.rng, idx |-> r.idx,
                                          err |-> r.err, id |-> r.id, val |-> r.val]]
  /\ UNCHANGED <<procVars, ui>>

ApplyPickWeighted ==
  /\ probe.rng.draws < MaxDraws
  /\ \E r \in {pickWeighted(probe.rng, probe.list)} :
       Applied("pickWeighted",
               [rng |-> r.rng, idx |-> r.idx, err |-> "", id |-> "", val |-> 0])

ApplyPickWeightedStrict ==
  /\ probe.rng.draws < MaxDraws
  /\ \E r \in {pickWeightedStrict(probe.rng, probe.list)} :
       Applied("pickWeightedStrict",
               [rng |-> r.rng, idx |-> r.idx, err |-> r.err, id |-> "", val |-> 0])

ApplyPickTierId ==
  /\ probe.rng.draws < MaxDraws
  /\ \E r \in {pickTierId(probe.default, probe.override, probe.rng)} :
       Applied("pickTierId",
               [rng |-> r.rng, idx |-> 0, err |-> r.err, id |-> r.id, val |-> 0])

ApplyInt ==
  /\ probe.rng.draws < MaxDraws
  /\ \E r \in {int(probe.rng, probe.min, probe.max)} :
       Applied("int", [rng |-> r.rng, idx |-> 0, err |-> "", id |-> "", val |-> r.val])

ApplyIntStrict ==
  /\ probe.rng.draws < MaxDraws
  /\ \E r \in {intStrict(probe.rng, probe.min, probe.max)} :
       Applied("intStrict", [rng |-> r.rng, idx |-> 0, err |-> "", id |-> "", val |-> r.val])

(***************************************************************************)
(* main.js: the controller.  A click is delivered to a handler only while   *)
(* its button is not disabled.  A handler runs to its await in one step and *)
(* goes on when the awaited call has settled.                               *)
(***************************************************************************)
\* main.js 49-52: main() calls loadAllData.
MainLoad ==
  /\ ui.main = "idle"
  /\ phase[1] = "idle"
  /\ Start(1, Load, {})

\* main.js 53-112: a failed load ends main(); after a load that succeeded
\* the two click handlers are registered.
MainLoaded ==
  /\ ~Hung
  /\ ui.main = "idle"
  /\ phase[1] \in {"resolved", "rejected"}
  /\ ui' = [ui EXCEPT !.main = "done", !.ready = (phase[1] = "resolved")]
  /\ UNCHANGED <<procVars, probe>>

\* Variant: the handler leaves lastSpawn as it is when it starts.
SpawnClickKeep(c, k) ==
  /\ ~Hung
  /\ ui.ready /\ ~ui.spawnDisabled
  /\ phase[c] = "idle" /\ \A b \in Calls : b < c => phase[b] # "idle"
  /\ ui' = [ui EXCEPT !.spawnDisabled = TRUE, !.worldDisabled = TRUE,
                      !.pending = c, !.args = k]
  /\ UNCHANGED <<procVars, probe>>

\* main.js 78-85: the Spawn handler up to its call: both buttons disabled,
\* the inputs read, lastSpawn = null.  c is the call it is about to make.
SpawnClick(c, k) ==
  /\ ~Hung
  /\ ui.ready /\ ~ui.spawnDisabled
  /\ phase[c] = "idle" /\ \A b \in Calls : b < c => phase[b] # "idle"
  /\ ui' = [ui EXCEPT !.spawnDisabled = TRUE, !.worldDisabled = TRUE,
                      !.lastSpawn = NullSpawn, !.pending = c, !.args = k]
  /\ UNCHANGED <<procVars, probe>>

\* main.js 87: spawnPack({ zoneId, difficulty, seed }), awaited.  The six
\* documents are in the cache since main() loaded them.
SpawnCall ==
  /\ ui.pending # 0
  /\ phase[ui.pending] = "idle"
  /\ Start(ui.pending, ui.args, {})

\* main.js 88-100: the handler after its await: lastSpawn is the pack, or
\* null in the catch block; finally both buttons are enabled.
SpawnSettled ==
  /\ ~Hung
  /\ ui.pending # 0
  /\ phase[ui.pending] \in {"resolved", "rejected"}
  /\ ui' = [ui EXCEPT !.lastSpawn = IF phase[ui.pending] = "resolved"
                                    THEN [isNull |-> FALSE, pack |-> outcome[ui.pending].pack]
                                    ELSE NullSpawn,
                      !.spawnDisabled = FALSE, !.worldDisabled = FALSE,
                      !.latest = ui.pending, !.pending = 0]
  /\ UNCHANGED <<procVars, probe>>

\* main.js 103-111: the Spawn-to-World handler: the units of lastSpawn are
\* added to the world, or the click is refused with a status message
\* (refused records after which call).
WorldClick ==
  /\ ~Hung
  /\ ui.ready /\ ~ui.worldDisabled
  /\ Len(ui.world) + Len(ui.refused) < MaxWorldClicks
  /\ ui' = IF ~ui.lastSpawn.isNull /\ Len(ui.lastSpawn.pack) > 0
           THEN [ui EXCEPT !.world = Append(ui.world, ui.lastSpawn.pack)]
           ELSE [ui EXCEPT !.refused = Append(ui.refused, ui.latest)]
  /\ UNCHANGED <<procVars, probe>>

Init == \E srv \in SysServers : InitWith(srv)

Next ==
  \/ \E c \in Calls, k \in SysCalls, sl \in SlowSets : Start(c, k, sl)
  \/ \E c \in Calls, p \in PathSet : FetchOk(c, p)
  \/ \E c \in Calls, p \in PathSet, kind \in SysFails : FetchFail(c, p, kind)
  \/ \E d \in SysDeploys : Deploy(d[1], d[2])

Spec == Init /\ [][Next]_vars

\* SpecValidate: loadAllData as a function of the six documents: one call,
\* every combination of versions.
InitValidate == \E srv \in AllServers : InitWith(srv)
NextValidate == Start(1, Load, {})
SpecValidate == InitValidate /\ [][NextValidate]_vars

\* SpecSpawn: spawnPack as a function of its inputs: calls made one after
\* the other, each settled before the next, over a wider set of inputs.
SpawnServers ==
  {With(Paths[2], 2), With(Paths[4], 2), With(Paths[4], 4),
   [Version1 EXCEPT ![Paths[4]] = 5, ![Paths[1]] = 4], With(Paths[2], 3)}
SpawnCalls ==
  {Spawn("docks", "normal", [num |-> 7]), Spawn("docks", "normal", [num |-> 56]),
   Spawn("docks", "hell", [str |-> "a"]), Spawn("vault", "normal", [num |-> 7]),
   Spawn("vault", "hell", [undef |-> TRUE]), Spawn("nowhere", "normal", [num |-> 7]),
   Spawn("void", "normal", [num |-> 7]), Spawn("sump", "normal", [num |-> 7]),
   Spawn("docks", "nightmare", [num |-> 7]), Spawn("docks", "inferno", [num |-> 7]),
   Spawn("vault", "hell", [str |-> "b"])}

InitSpawn == \E srv \in SpawnServers : InitWith(srv)
NextSpawn == \E c \in Calls, k \in SpawnCalls : Start(c, k, {})
SpecSpawn == InitSpawn /\ [][NextSpawn]_vars

\* SpecRng: pickWeighted, its second variant and pickTierId as functions of
\* a stream and a list or two probability maps.
ProbeWeights == {-1, 0, 1, 2}
ProbeLists ==
  UNION {[1..n -> {[weight |-> w] : w \in ProbeWeights}] : n \in 0..3}
ZeroProbs == <<[id |-> "normal", w |-> 0], [id |-> "champion", w |-> 0]>>
ProbeDefaults == {defaultProbs, ZeroProbs}
ProbeOverrides ==
  {<<>>,
   <<[id |-> "boss", w |-> 1000]>>,
   <<[id |-> "normal", w |-> 0], [id |-> "unique", w |-> 500], [id |-> "boss", w |-> -200],
     [id |-> "champion", w |-> 500]>>,
   <<[id |-> "unique", w |-> 0], [id |-> "boss", w |-> -1000]>>,
   ZeroProbs}
ProbeSeeds == {[str |-> "a"], [undef |-> TRUE]}

InitRng ==
  \E lst \in ProbeLists, ov \in ProbeOverrides, df \in ProbeDefaults, sd \in ProbeSeeds :
    /\ InitProcess(Version1)
    /\ probe = [NoProbe EXCEPT !.list = lst, !.override = ov, !.default = df,
                               !.seed = sd, !.rng = createRNG(SeedOrDefault(sd))]
NextRng == ApplyPickWeighted \/ ApplyPickWeightedStrict \/ ApplyPickTierId
SpecRng == InitRng /\ [][NextRng]_vars

\* SpecInt: int and its second variant as functions of a stream and two
\* bounds.  A bound is a number given in halves, or not a number.
ProbeBounds == {[num |-> h] : h \in -4..4} \cup {[undef |-> TRUE]}
InitInt ==
  \E a \in ProbeBounds, b \in ProbeBounds, sd \in ProbeSeeds :
    /\ InitProcess(Version1)
    /\ probe = [NoProbe EXCEPT !.min = a, !.max = b, !.seed = sd,
                               !.rng = createRNG(SeedOrDefault(sd))]
NextInt == ApplyInt \/ ApplyIntStrict
SpecInt == InitInt /\ [][NextInt]_vars

\* SpecSeeds: the functions of rng.js on streams made by createRNG from seeds
\* of every kind: strings, the empty one included, numbers, 0 included, and
\* a value that is neither.
SeedLists == {lst \in ProbeLists : Len(lst) = 3 /\ lst[1].weight <= 0 /\ lst[3].weight > 0}
SeedBounds == {<<[num |-> -3], [num |-> 4]>>, <<[num |-> 4], [num |-> -1]>>,
               <<[num |-> 2], [num |-> 3]>>}
SeedSeeds == {[num |-> 0], [str |-> ""], [nan |-> TRUE], [str |-> "a"], [num |-> 7]}
InitSeeds ==
  \E lst \in SeedLists, ov \in ProbeOverrides, bd \in SeedBounds, sd \in SeedSeeds :
    /\ InitProcess(Version1)
    /\ probe = [NoProbe EXCEPT !.list = lst, !.override = ov, !.default = defaultProbs,
                               !.min = bd[1], !.max = bd[2], !.seed = sd,
                               !.rng = createRNG(sd)]
NextSeeds == ApplyInt \/ ApplyPickWeighted \/ ApplyPickTierId
SpecSeeds == InitSeeds /\ [][NextSeeds]_vars

\* SpecUi: the page: main() and the clicks on its two buttons.
UiServers == {With(Paths[2], 2), With(Paths[4], 3)}
UiCalls ==
  {Spawn("docks", "normal", [str |-> "a"]), Spawn("void", "normal", [str |-> "a"]),
   Spawn("vault", "hell", [str |-> "b"])}
InitUi == \E srv \in UiServers : InitWith(srv)
NextUi ==
  \/ MainLoad
  \/ MainLoaded
  \/ \E c \in Calls, k \in UiCalls : SpawnClick(c, k)
  \/ SpawnCall
  \/ SpawnSettled
  \/ WorldClick
SpecUi == InitUi /\ [][NextUi]_vars

\* SpecLive: overlapping calls, every retrieval of which settles, over the
\* first documents and over a tiers document with a minion count range
\* [1, 1e999].
LiveServers == {Version1, With(Paths[4], 6)}
LiveCalls ==
  {Load, Spawn("vault", "hell", [str |-> "b"]), Spawn("docks", "normal", [num |-> 7])}
\* A pending retrieval settles: it succeeds or it fails.
FetchSettles ==
  \E c \in Calls, p \in PathSet :
    (\E kind \in SysFails : FetchFail(c, p, kind)) \/ FetchOk(c, p)
InitLive == \E srv \in LiveServers : InitWith(srv)
NextLive ==
  \/ \E c \in Calls, k \in LiveCalls, sl \in SlowSets : Start(c, k, sl)
  \/ \E c \in Calls, p \in PathSet : FetchOk(c, p)
  \/ \E c \in Calls, p \in PathSet, kind \in SysFails : FetchFail(c, p, kind)
SpecLive == InitLive /\ [][NextLive]_vars /\ WF_vars(FetchSettles)

(***************************************************************************)
(* Properties.                                                             *)
(***************************************************************************)
Settled(c) == phase[c] \in {"resolved", "rejected"}
IsSpawn(c) == call[c].kind = "spawnPack"
SameDocuments(a, b) == \A p \in PathSet : got[a][p].ver = got[b][p].ver

C2_FetchedOnce == \A p \in PathSet : fetches[p] <= 1 /\ writes[p] <= 1

\* The result of call c when it runs by itself on the documents it received.
Solo(c) == spawnPack(Tables(got[c]), call[c].zoneId, call[c].difficulty, call[c].seed)

ServerValid(srv) == validate(Tables([p \in PathSet |-> [src |-> 0, ver |-> srv[p]]])) = ""

\* C4: a call made after a validation failure, at a time when the documents
\* on the server are valid (and stay as they are), with no retrieval of its
\* own failing, loads successfully.
C4_RecoversAfterInvalid ==
  \A c \in Calls :
    (Settled(c) /\ startedAt[c].invalidSeen /\ startedAt[c].server = server
       /\ ServerValid(server) /\ \A p \in PathSet : fetch[c][p] # "fail")
    => Loaded(c)

\* C5: a call made after the first successful load fetches nothing and
\* obtains the six objects of that first load.
C5_SameObjects ==
  \A c \in Calls :
    (phase[c] # "idle" /\ startedAt[c].firstOk # NoSnapshot)
    => /\ \A p \in PathSet : fetch[c][p] = "hit"
       /\ got[c] = startedAt[c].firstOk

\* The message err begins with the location p in brackets.
NamesLocation(err, p) ==
  Len(err) >= Len(p) + 2 /\ SubSeq(err, 1, Len(p) + 2) = "[" \o p \o "]"

\* C6: a call has loaded only if each of its six retrievals succeeded (from
\* the cache or by fetch) and then holds all six documents; a call with a
\* failed retrieval is rejected with an error that names the location of a
\* failed retrieval and delivers neither snapshot nor pack; the cache entry
\* of that location was not written by the call; and every fetch counted
\* for a location is the single fetch of some call.
C6_AllOrNothing ==
  /\ \A c \in Calls :
       /\ Loaded(c) => \A p \in PathSet : fetch[c][p] \in {"hit", "ok"} /\ got[c][p] # NoEntry
       /\ outcome[c].snapshot # NoSnapshot
            => Loaded(c) /\ \A p \in PathSet : outcome[c].snapshot[p] # NoEntry
       /\ (\E p \in PathSet : fetch[c][p] = "fail")
            => /\ phase[c] = "rejected"
               /\ outcome[c].snapshot = NoSnapshot
               /\ outcome[c].pack = <<>>
               /\ \E p \in PathSet : fetch[c][p] = "fail" /\ NamesLocation(outcome[c].err, p)
       /\ \A p \in PathSet : fetch[c][p] = "fail" => cache[p].src # c
  /\ \A p \in PathSet :
       fetches[p] = Cardinality({c \in Calls : fetch[c][p] \in {"pending", "ok", "fail"}})

\* A retrieval of a call has failed while another call has loaded.
C6_Witness ==
  \E c, b \in Calls : \E p \in PathSet :
    fetch[c][p] = "fail" /\ phase[c] = "rejected" /\ Loaded(b)

\* C7: every zone of a successfully loaded snapshot has at least one
\* spawn-table entry.
C7_NonEmptySpawnTables ==
  Loaded(1) =>
    LET zones == Tables(outcome[1].snapshot).zones.arr
    IN \A i \in 1..Len(zones) : Len(zones[i].spawn_table.arr) >= 1

\* C8: in a successfully loaded snapshot every monster_id of every spawn
\* table is the id of a monsters record and every id of every affix_pool is
\* the id of an affixes record.
C8_RefsResolve ==
  Loaded(1) =>
    LET d == Tables(outcome[1].snapshot) IN
    /\ \A i \in 1..Len(d.zones.arr) :
         \A j \in 1..Len(d.zones.arr[i].spawn_table.arr) :
           \E m \in 1..Len(d.monsters.arr) :
             d.monsters.arr[m].id = d.zones.arr[i].spawn_table.arr[j].monster_id
    /\ \A i \in 1..Len(d.difficulties.arr) :
         \A j \in 1..Len(d.difficulties.arr[i].affix_pool.arr) :
           \E a \in 1..Len(d.affixes.arr) :
             d.affixes.arr[a].id = d.difficulties.arr[i].affix_pool.arr[j]

\* A load has succeeded on documents with several zones, entries and pools.
C8_Witness ==
  /\ Loaded(1)
  /\ Len(Tables(outcome[1].snapshot).zones.arr) >= 3
  /\ Len(Tables(outcome[1].snapshot).difficulties.arr[1].affix_pool.arr) >= 1

\* The six documents pass every structural check of loadAllData.
StructurallyValid(d) ==
  /\ difficultiesErr(d.difficulties) = "" /\ monstersErr(d.monsters) = ""
  /\ affixesErr(d.affixes) = "" /\ tiersErr(d.tiers) = ""
  /\ zonesErr(d.zones) = "" /\ lootTablesErr(d.loot_tables) = ""

\* The spawn-table entries <<zone, entry>> (1-based) whose monster_id no
\* monsters record has, and the first of them in zone, then entry order.
DanglingRefs(d) ==
  UNION {{<<i, j>> : j \in {k \in 1..Len(d.zones.arr[i].spawn_table.arr) :
                               \A m \in 1..Len(d.monsters.arr) :
                                 d.monsters.arr[m].id
                                   # d.zones.arr[i].spawn_table.arr[k].monster_id}} :
         i \in 1..Len(d.zones.arr)}
FirstRef(refs) ==
  CHOOSE x \in refs : \A y \in refs : x[1] < y[1] \/ (x[1] = y[1] /\ x[2] <= y[2])

\* C9: on structurally valid documents with a spawn-table entry naming an
\* unknown monster, loadAllData fails with the message
\* "[zones.json] zones[i].spawn_table[j].monster_id '<id>' not found in
\* monsters" for the first such entry (i, j counted from 0).
C9_DanglingMonsterPath ==
  LET d == Tables(got[1]) IN
  (Settled(1) /\ StructurallyValid(d) /\ DanglingRefs(d) # {})
  => LET x == FirstRef(DanglingRefs(d)) IN
     /\ phase[1] = "rejected"
     /\ outcome[1].err =
          "[zones.json] zones[" \o ToString(x[1] - 1) \o "].spawn_table["
          \o ToString(x[2] - 1) \o "].monster_id '"
          \o d.zones.arr[x[1]].spawn_table.arr[x[2]].monster_id
          \o "' not found in monsters"

\* A load has failed on documents with several such entries, the first of
\* which is not the first entry of the first zone.
C9_Witness ==
  LET d == Tables(got[1]) IN
  /\ Settled(1) /\ StructurallyValid(d)
  /\ Cardinality(DanglingRefs(d)) >= 2
  /\ FirstRef(DanglingRefs(d)) # <<1, 1>>

\* The pack of a resolved call is complete: the leader alone, or the leader
\* of tier 'unique' with a number of minions in the count_range of the tier.
FullPack(c) ==
  LET tiers == Tables(got[c]).tiers.arr
      t == FindById(tiers, trace[c].tierId)
      n == Len(outcome[c].pack)
  IN /\ n >= 1 /\ t # 0
     /\ IF trace[c].tierId = "unique" /\ "minions" \in DOMAIN tiers[t]
        THEN /\ n - 1 >= tiers[t].minions.count_range.arr[1]
             /\ n - 1 <= tiers[t].minions.count_range.arr[2]
        ELSE n = 1

\* C10: a settled spawnPack call has either resolved with the complete pack
\* it built, or rejected with an error and no unit at all, whatever it had
\* built before the failure.
C10_AllOrNothing ==
  \A c \in Calls :
    (Settled(c) /\ IsSpawn(c))
    => \/ /\ phase[c] = "resolved" /\ outcome[c].err = ""
          /\ outcome[c].pack = trace[c].built
          /\ FullPack(c)
       \/ /\ phase[c] = "rejected" /\ outcome[c].err # ""
          /\ outcome[c].pack = <<>>

\* A call has failed on a minion (no tier 'normal') after its leader was
\* built.
C10_Witness ==
  \E c \in Calls :
    /\ IsSpawn(c) /\ phase[c] = "rejected" /\ stage[c] = "spawn"
    /\ Len(trace[c].built) >= 1
    /\ outcome[c].err = "buildUnitInstance: tier 'normal' not found"

\* Call c was rejected: an error, and no unit.
Rejects(c) == phase[c] = "rejected" /\ outcome[c].err # "" /\ outcome[c].pack = <<>>

\* The spawn-table entry the stream of call c picks in zone: the second draw
\* of the stream, the first being the zone level (0: no entry).
PickedEntry(c, zone) ==
  pickWeighted(next(createRNG(SeedOrDefault(call[c].seed))), zone.spawn_table.arr).idx

\* C11: a spawnPack call is rejected with an error when its zoneId matches no
\* zone, when the spawn table of the zone is empty or has no positive weight,
\* when the monster id of the picked entry or the picked tier id is in no
\* record of its table, and when the difficulty id matches no difficulty
\* record or no level_range entry of the zone.
C11_Rejects ==
  \A c \in Calls :
    (Settled(c) /\ IsSpawn(c))
    => LET d == Tables(got[c])
           z == FindById(d.zones.arr, call[c].zoneId)
           zone == d.zones.arr[z]
           table == zone.spawn_table.arr
       IN /\ z = 0 => Rejects(c)
          /\ (z # 0 /\ Len(table) = 0) => Rejects(c)
          /\ (z # 0 /\ \A j \in 1..Len(table) : table[j].weight <= 0) => Rejects(c)
          /\ (z # 0 /\ call[c].difficulty \notin DOMAIN zone.level_range) => Rejects(c)
          /\ FindById(d.difficulties.arr, call[c].difficulty) = 0 => Rejects(c)
          /\ (z # 0 /\ Len(table) > 0 /\ PickedEntry(c, zone) # 0
                /\ FindById(d.monsters.arr, table[PickedEntry(c, zone)].monster_id) = 0)
             => Rejects(c)
          /\ (trace[c].tierId # "" /\ FindById(d.tiers.arr, trace[c].tierId) = 0)
             => Rejects(c)

\* Three calls on the same documents were rejected: one for a spawn table
\* without a positive weight, one for an empty spawn table, one for a
\* difficulty that has a level range but no record.
C11_Witness ==
  \E a, b, c \in Calls :
    /\ Rejects(a) /\ outcome[a].err = "spawnPack: failed to pick monster for zone 'sump'"
    /\ Rejects(b) /\ outcome[b].err = "spawnPack: zone 'void' has empty spawn table"
    /\ Rejects(c) /\ outcome[c].err = "spawnPack: difficulty 'nightmare' not found"

PickedTier(c) ==
  Tables(got[c]).tiers.arr[FindById(Tables(got[c]).tiers.arr, trace[c].tierId)]

RecordOf(c, name, id) == Tables(got[c])[name].arr[FindById(Tables(got[c])[name].arr, id)]

\* C14: every unit of a pack after the first has tier 'normal', the
\* monster_id of the leader, no affix, lootTable 'common_creep', and the
\* level zoneLevel + monster.base_level_offset + level_bonus of tier 'normal'
\* + minions.level_bonus of tier 'unique', zoneLevel being the level rolled
\* for the call.
C14_Minions ==
  \A c \in Calls :
    (IsSpawn(c) /\ phase[c] = "resolved")
    => \A i \in 2..Len(outcome[c].pack) :
         LET u == outcome[c].pack[i] IN
         /\ u.tier = "normal"
         /\ u.monster_id = outcome[c].pack[1].monster_id
         /\ u.affixes = <<>>
         /\ u.lootTable = "common_creep"
         /\ u.level = trace[c].zoneLevel
                      + RecordOf(c, "monsters", u.monster_id).base_level_offset
                      + RecordOf(c, "tiers", "normal").level_bonus
                      + RecordOf(c, "tiers", "unique").minions.level_bonus

\* A pack with a minion was delivered whose monster has a level offset, on
\* documents where tier 'normal' has a level bonus and may carry affixes.
C14_Witness ==
  \E c \in Calls :
    /\ IsSpawn(c) /\ phase[c] = "resolved" /\ Len(outcome[c].pack) >= 2
    /\ RecordOf(c, "monsters", outcome[c].pack[1].monster_id).base_level_offset > 0
    /\ RecordOf(c, "tiers", "normal").level_bonus > 0
    /\ RecordOf(c, "tiers", "normal").affix_count.arr[2] > 0
    /\ RecordOf(c, "tiers", "unique").minions.level_bonus < 0

\* The zone of call c and its level range for the difficulty of the call.
ZoneOf(c) == RecordOf(c, "zones", call[c].zoneId)
RangeOf(c) == ZoneOf(c).level_range[call[c].difficulty].arr

\* The level of unit u of call c without the bonuses added to the zone
\* level: the offset of the monster, the bonus of the tier of the unit and,
\* for a minion (i > 1), the bonus of the minions record.
Baseline(c, i) ==
  LET u == outcome[c].pack[i] IN
  u.level - RecordOf(c, "monsters", u.monster_id).base_level_offset
          - RecordOf(c, "tiers", u.tier).level_bonus
          - (IF i > 1 THEN RecordOf(c, "tiers", "unique").minions.level_bonus ELSE 0)

\* C15: in every successful spawnPack call the zone level L lies in the
\* [min, max] pair of the zone for the difficulty, it is the value of the
\* first draw of the stream of the call scaled to that range, and it is the
\* baseline of the level of the leader and of every minion.
C15_ZoneLevel ==
  \A c \in Calls :
    (IsSpawn(c) /\ phase[c] = "resolved")
    => LET L == trace[c].zoneLevel
           min == RangeOf(c)[1]
           max == RangeOf(c)[2]
       IN /\ min <= L /\ L <= max
          /\ L = min + ScaleFloor(xorshift(SeedWord(SeedOrDefault(call[c].seed))),
                                  (max - min) + 1)
          /\ \A i \in 1..Len(outcome[c].pack) : Baseline(c, i) = L

\* Two calls for the same zone and difficulty rolled the least and the
\* greatest level of a range of several levels, one of them for a pack with
\* minions.
C15_Witness ==
  \E a, b \in Calls :
    /\ IsSpawn(a) /\ phase[a] = "resolved" /\ IsSpawn(b) /\ phase[b] = "resolved"
    /\ call[a].zoneId = call[b].zoneId /\ call[a].difficulty = call[b].difficulty
    /\ RangeOf(a)[1] < RangeOf(a)[2]
    /\ trace[a].zoneLevel = RangeOf(a)[1] /\ trace[b].zoneLevel = RangeOf(b)[2]
    /\ Len(outcome[a].pack) + Len(outcome[b].pack) >= 3

RECURSIVE Drawn(_, _)
\* The state of a stream seeded with `seed` after k draws.
Drawn(seed, k) ==
  IF k = 0 THEN SeedWord(SeedOrDefault(seed))
  ELSE CHOOSE w \in {xorshift(p) : p \in {Drawn(seed, k - 1)}} : TRUE

\* The eligible pool of call c: the records of the affix ids of its
\* difficulty, in the order of affix_pool.
PoolOf(c) ==
  LET ids == RecordOf(c, "difficulties", call[c].difficulty).affix_pool.arr
  IN [i \in 1..Len(ids) |-> RecordOf(c, "affixes", ids[i])]

\* The affix count requested for the leader of call c: the fourth draw of
\* its stream, scaled to the affix_count range of the picked tier.
RequestedOf(c) ==
  LET ac == PickedTier(c).affix_count.arr
  IN ac[1] + ScaleFloor(Drawn(call[c].seed, 4), (ac[2] - ac[1]) + 1)

\* C16: the leader of a successful call, with requested affix count n in the
\* affix_count range of its tier and an eligible pool of p affixes, carries
\* exactly min(n, p) affixes, each the id and mods of a pool entry, no
\* position of the pool being used twice; a call is never rejected for a
\* pool that is too small.
C16_LeaderAffixes ==
  \A c \in Calls :
    (IsSpawn(c) /\ phase[c] = "resolved")
    => LET affixes == outcome[c].pack[1].affixes
           pool == PoolOf(c)
           n == RequestedOf(c)
           ac == PickedTier(c).affix_count.arr
       IN /\ ac[1] <= n /\ n <= ac[2]
          /\ Len(affixes) = (IF n < Len(pool) THEN n ELSE Len(pool))
          /\ \E f \in [1..Len(affixes) -> 1..Len(pool)] :
               /\ \A i, j \in 1..Len(affixes) : i # j => f[i] # f[j]
               /\ \A i \in 1..Len(affixes) :
                    affixes[i] = [id |-> pool[f[i]].id, mods |-> pool[f[i]].mods]

\* The requested count of the leader of call c exceeds its pool.
Clamped(c) ==
  IsSpawn(c) /\ phase[c] = "resolved" /\ RequestedOf(c) > Len(PoolOf(c))

\* A leader was built with an empty pool and a requested count above 0, and
\* another took two or more affixes of a pool larger than its count.
C16_Witness ==
  \E a \in Calls :
    /\ Clamped(a) /\ Len(PoolOf(a)) = 0
    /\ \E c \in Calls :
         /\ IsSpawn(c) /\ phase[c] = "resolved"
         /\ Len(outcome[c].pack[1].affixes) >= 2
         /\ Len(outcome[c].pack[1].affixes) < Len(PoolOf(c))

RECURSIVE AffixBonus(_, _, _)
\* The bonus the first n affixes of a unit give for damage type key.
AffixBonus(affixes, key, n) ==
  IF n = 0 THEN 0
  ELSE AffixBonus(affixes, key, n - 1)
       + (IF key \in DOMAIN affixes[n].mods THEN affixes[n].mods[key] ELSE 0)

\* The resistance of unit u of call c for damage type key before clamping:
\* the base resistance of its monster, the bonus of the difficulty with the
\* override of the zone added, and the bonus of its affixes.
Combined(c, u, key) ==
  LET base == RecordOf(c, "monsters", u.monster_id).base_res
      bonus == RecordOf(c, "difficulties", call[c].difficulty).res_bonus
      zone == ZoneOf(c)
      over == IF "difficulty_multipliers" \in DOMAIN zone
                 /\ "res_bonus" \in DOMAIN zone.difficulty_multipliers
              THEN zone.difficulty_multipliers.res_bonus ELSE EmptyObj
  IN (IF key \in DOMAIN base THEN base[key] ELSE 0)
     + (IF key \in DOMAIN bonus THEN bonus[key] ELSE 0)
     + (IF key \in DOMAIN over THEN over[key] ELSE 0)
     + AffixBonus(u.affixes, key, Len(u.affixes))

\* C17: the resists map of every generated unit has exactly the keys laser,
\* plasma, ion and kinetic, each value in [-100, 99], and flags.immune lists
\* a damage type if and only if the base resistance of the monster, the
\* effective difficulty bonus and the affix bonus for it sum to 100 or more.
C17_Resists ==
  \A c \in Calls :
    (IsSpawn(c) /\ phase[c] = "resolved")
    => \A i \in 1..Len(outcome[c].pack) :
         LET u == outcome[c].pack[i] IN
         /\ DOMAIN u.resists = {"laser", "plasma", "ion", "kinetic"}
         /\ \A key \in DOMAIN u.resists : -100 <= u.resists[key] /\ u.resists[key] <= 99
         /\ \A key \in {"laser", "plasma", "ion", "kinetic"} :
              (\E j \in 1..Len(u.flags.immune) : u.flags.immune[j] = key)
              <=> Combined(c, u, key) >= 100

\* Units were generated with a combined value of exactly 100, of exactly 99,
\* above 100 with affixes contributing, and below -100.
C17_Witness ==
  \E a, b, d \in Calls :
    /\ \A c \in {a, b, d} : IsSpawn(c) /\ phase[c] = "resolved"
    /\ \E i \in 1..Len(outcome[a].pack) : \E key \in DOMAIN outcome[a].pack[i].resists :
         Combined(a, outcome[a].pack[i], key) = 100
    /\ \E i \in 1..Len(outcome[b].pack) : \E key \in DOMAIN outcome[b].pack[i].resists :
         Combined(b, outcome[b].pack[i], key) = 99
    /\ \E i \in 1..Len(outcome[b].pack) : \E key \in DOMAIN outcome[b].pack[i].resists :
         /\ Combined(b, outcome[b].pack[i], key) > 100
         /\ AffixBonus(outcome[b].pack[i].affixes, key, Len(outcome[b].pack[i].affixes)) > 0
    /\ \E i \in 1..Len(outcome[d].pack) : \E key \in DOMAIN outcome[d].pack[i].resists :
         Combined(d, outcome[d].pack[i], key) < -100

\* The stream of call c after its first k draws.
Stream(c, k) == [state |-> Drawn(call[c].seed, k), draws |-> k]

\* The id made from draw k of the stream of call c.
IdOfDraw(c, k) == "u-" \o toString36(ScaleFloorE9(Drawn(call[c].seed, k)))

\* The number of draws call c makes for its minions.
MinionDraws(c) ==
  IF trace[c].tierId = "unique" /\ "minions" \in DOMAIN PickedTier(c)
  THEN Len(outcome[c].pack) ELSE 0

\* C18: a successful spawnPack call has one stream, seeded once, and draws
\* from it in this order and number: 1 for the zone level, 1 for the
\* spawn-table pick, 1 for the tier pick, 1 for the affix count of the
\* leader, 1 for each affix rolled for the leader, 1 for the id of the
\* leader and, only for the tier unique with minions, 1 for the minion
\* count and then exactly 1, the id, for each minion; there is no other
\* draw.
C18_DrawOrder ==
  \A c \in Calls :
    (IsSpawn(c) /\ phase[c] = "resolved")
    => LET pack == outcome[c].pack
           zone == ZoneOf(c)
           range == RangeOf(c)
           n == Len(pack[1].affixes)
           cr == PickedTier(c).minions.count_range.arr
       IN /\ trace[c].rng = Stream(c, 5 + n + MinionDraws(c))
          /\ trace[c].zoneLevel
               = range[1] + ScaleFloor(Drawn(call[c].seed, 1), (range[2] - range[1]) + 1)
          /\ pack[1].monster_id
               = zone.spawn_table.arr[pickWeighted(Stream(c, 1), zone.spawn_table.arr).idx].monster_id
          /\ trace[c].tierId
               = pickTierId(defaultProbs,
                            IF "tier_probs" \in DOMAIN zone THEN zone.tier_probs ELSE <<>>,
                            Stream(c, 2)).id
          /\ n = IF RequestedOf(c) < Len(PoolOf(c)) THEN RequestedOf(c) ELSE Len(PoolOf(c))
          /\ pack[1].id = IdOfDraw(c, 5 + n)
          /\ IF MinionDraws(c) = 0 THEN Len(pack) = 1
             ELSE /\ Len(pack) - 1 = cr[1] + ScaleFloor(Drawn(call[c].seed, 6 + n), (cr[2] - cr[1]) + 1)
                  /\ \A i \in 2..Len(pack) :
                       pack[i].id = IdOfDraw(c, 5 + n + i) /\ pack[i].affixes = <<>>

\* A unique leader with rolled affixes and at least two minions was
\* generated, and a leader of another tier without affixes.
C18_Witness ==
  \E a, b \in Calls :
    /\ IsSpawn(a) /\ phase[a] = "resolved" /\ IsSpawn(b) /\ phase[b] = "resolved"
    /\ Len(outcome[a].pack) >= 3 /\ Len(outcome[a].pack[1].affixes) >= 2
    /\ trace[a].rng.draws = 5 + Len(outcome[a].pack[1].affixes) + Len(outcome[a].pack)
    /\ trace[b].tierId # "unique" /\ trace[b].rng.draws = 5

RECURSIVE Cumulative(_, _)
\* w_1 + ... + w_i over the positive weights of the list.
Cumulative(list, i) ==
  IF i = 0 THEN 0
  ELSE Cumulative(list, i - 1) + (IF list[i].weight > 0 THEN list[i].weight ELSE 0)

\* The result l was made with exactly one draw.
OneDraw(l) ==
  l.after = [state |-> xorshift(l.before.state), draws |-> l.before.draws + 1]

\* What is stated of a weighted pick, for the last result of op: on a
\* non-empty list with total positive weight T > 0 one draw u is made and
\* the first position i with u * T < w_1 + ... + w_i is returned, and its
\* weight is positive; otherwise nothing is returned and no draw is made.
\* (u * T < an integer is decided on floor(u * T).)
PicksAsStated(op) ==
  LET l == probe.last[op]
      list == probe.list
      T == Cumulative(list, Len(list))
      x == ScaleFloor(xorshift(l.before.state), T)
  IN IF Len(list) > 0 /\ T > 0
     THEN /\ OneDraw(l)
          /\ l.err = ""
          /\ l.idx \in 1..Len(list)
          /\ x < Cumulative(list, l.idx)
          /\ \A j \in 1..(l.idx - 1) : ~(x < Cumulative(list, j))
          /\ list[l.idx].weight > 0
     ELSE /\ l.after = l.before
          /\ l.idx = 0

\* The statement of C19 as made, of both pickWeighted functions of the
\* repository.
C19_AsStated ==
  \A op \in {"pickWeighted", "pickWeightedStrict"} :
    probe.last[op].done => PicksAsStated(op)

\* C19: pickWeighted of rng.js, on a non-empty list with total positive
\* weight T > 0, makes exactly one draw u and returns the first item i in
\* list order with u * T < w_1 + ... + w_i, never an item of weight 0 or
\* less; on an empty list or with T <= 0 it returns undefined without a
\* draw.  The second pickWeighted (mobileJoystick.js) does the same on
\* lists without a negative weight, throwing where the first returns
\* undefined; on a list with a negative weight it throws without a draw,
\* also when T > 0.
C19_PickWeighted ==
  /\ probe.last["pickWeighted"].done => PicksAsStated("pickWeighted")
  /\ probe.last["pickWeightedStrict"].done
     => LET l == probe.last["pickWeightedStrict"] IN
        /\ (l.idx = 0) <=> (l.err # "")
        /\ IF \E i \in 1..Len(probe.list) : probe.list[i].weight < 0
           THEN l.idx = 0 /\ l.after = l.before
           ELSE PicksAsStated("pickWeightedStrict")

\* On a list with total positive weight above 0 and a negative weight in
\* front, the first function has made a draw and returned a later item, and
\* the second, applied to the stream after that, has thrown without a draw.
C19_Witness ==
  LET a == probe.last["pickWeighted"]
      b == probe.last["pickWeightedStrict"]
  IN /\ a.done /\ b.done
     /\ Len(probe.list) = 3 /\ probe.list[1].weight < 0 /\ probe.list[2].weight = 0
     /\ a.idx = 3 /\ a.before.draws = 0 /\ b.before.draws = 1
     /\ b.err # "" /\ probe.rng.draws = 1

\* The map pickTierId was applied to: the override when it has a key.
MapUsed == IF Len(probe.override) > 0 THEN probe.override ELSE probe.default

RECURSIVE CumulativeW(_, _)
\* The weight of the positive entries among the first i of a map.
CumulativeW(map, i) ==
  IF i = 0 THEN 0
  ELSE CumulativeW(map, i - 1) + (IF map[i].w > 0 THEN map[i].w ELSE 0)

\* C20: pickTierId uses the override map if and only if it has at least one
\* key, the default map otherwise.  With a positive weight in the map used
\* it makes exactly one draw u and returns the first id, in map order,
\* whose cumulative normalised weight over the positive entries exceeds u,
\* an id of positive weight in that map; with no positive weight in the map
\* used it fails, also when the map used is the override and the default
\* has positive weights.  (cumulative / T > u is decided as
\* floor(u * T) < cumulative.)
C20_PickTierId ==
  LET l == probe.last["pickTierId"]
      T == CumulativeW(MapUsed, Len(MapUsed))
      x == ScaleFloor(xorshift(l.before.state), T)
  IN l.done
     => IF T > 0
        THEN /\ OneDraw(l)
             /\ l.err = ""
             /\ \E i \in 1..Len(MapUsed) :
                  /\ MapUsed[i].id = l.id
                  /\ MapUsed[i].w > 0
                  /\ x < CumulativeW(MapUsed, i)
                  /\ \A j \in 1..(i - 1) : ~(x < CumulativeW(MapUsed, j))
        ELSE /\ l.err # ""
             /\ l.id = ""
             /\ l.after = l.before

\* With an override of four keys, two of them without a positive weight,
\* and the usual default map, the last positive entry of the override was
\* returned, an entry of weight 0 or less lying before it.
C20_Witness ==
  LET l == probe.last["pickTierId"]
  IN /\ l.done /\ l.err = ""
     /\ Len(probe.override) = 4 /\ probe.default = defaultProbs
     /\ l.id = probe.override[4].id /\ probe.override[3].w < 0

\* f is the floor of the bound b: the integer with f <= b < f + 1, 0 for a
\* bound that is not a number.
IsFloorOf(f, b) ==
  IF "num" \in DOMAIN b THEN 2 * f <= b.num /\ b.num < (2 * f) + 2 ELSE f = 0

\* C21: int(min, max), of rng.js and of mobileJoystick.js: with both bounds
\* floored and swapped when min > max into lo <= hi, the result is an
\* integer r with lo <= r < hi when lo < hi and is lo when lo = hi; it is
\* a function of the bounds and of the state of the stream at the call.
C21_IntRange ==
  \A op \in {"int", "intStrict"} :
    probe.last[op].done
    => \E a \in -3..3, b \in -3..3 :
         LET l == probe.last[op]
             lo == IF a > b THEN b ELSE a
             hi == IF a > b THEN a ELSE b
         IN /\ IsFloorOf(a, probe.min) /\ IsFloorOf(b, probe.max)
            /\ l.val \in Int
            /\ IF lo < hi THEN lo <= l.val /\ l.val < hi ELSE l.val = lo
            /\ l.val = lo + ScaleFloor(xorshift(l.before.state), hi - lo)

\* Both functions were applied to a fractional lower bound above a negative
\* fractional upper bound (so the bounds were swapped), one after the
\* other, and returned different values above the lowest of the range.
C21_Witness ==
  LET a == probe.last["int"]
      b == probe.last["intStrict"]
  IN /\ a.done /\ b.done
     /\ probe.min = [num |-> 3] /\ probe.max = [num |-> -3]
     /\ a.val # b.val /\ a.val > -2 /\ b.val > -2

\* The effective difficulty of call c: its difficulty record with the
\* overrides of its zone merged in.
EffDiff(c) ==
  mergeDifficulty(RecordOf(c, "difficulties", call[c].difficulty),
                  IF "difficulty_multipliers" \in DOMAIN ZoneOf(c)
                  THEN ZoneOf(c).difficulty_multipliers ELSE EmptyObj)

\* The extra multiplier k supplied for unit i of call c, in tenths: the one
\* of the minions block for a minion; none is supplied for the leader,
\* which stands for 1.
SuppliedMult(c, i, k) == IF i > 1 THEN RecordOf(c, "tiers", "unique").minions[k] ELSE 10

\* C22: the stats of every generated unit are, with levelDiff =
\* max(monsterLevel - zoneLevel, 0): hp = round(base.hp * diff.hp_mult *
\* tier.hp_mult * (1 + 0.10 * levelDiff) * extra.hp_mult), dps likewise with
\* dmg_mult, dps_mult and 0.08, rounded to two decimals, def likewise with
\* 0.06; an extra multiplier is 1 only when it is absent, so a supplied
\* extra multiplier of 0 gives a stat of 0.  (Multipliers are tenths and
\* hundredths, dps is in hundredths.)
C22_ScaleStats ==
  \A c \in Calls :
    (IsSpawn(c) /\ phase[c] = "resolved")
    => \A i \in 1..Len(outcome[c].pack) :
         LET u == outcome[c].pack[i]
             m == RecordOf(c, "monsters", u.monster_id)
             t == RecordOf(c, "tiers", u.tier)
             d == EffDiff(c)
             ld == IF u.level > trace[c].zoneLevel THEN u.level - trace[c].zoneLevel ELSE 0
         IN /\ u.stats.hp = Round(m.base_hp * d.hp_mult * t.hp_mult * (10 + ld)
                                  * SuppliedMult(c, i, "hp_mult"), 100000)
            /\ u.stats.dps = Round(m.base_dps * d.dmg_mult * t.dps_mult * (100 + (8 * ld))
                                   * SuppliedMult(c, i, "dps_mult"), 10000)
            /\ u.stats.def = Round(m.base_def * d.def_mult * t.def_mult * (100 + (6 * ld))
                                   * SuppliedMult(c, i, "def_mult"), 1000000)

\* A seed that normalises to 0: the number 0, a value that is neither a
\* string nor numeric, the empty string.
ZeroSeed(seed) ==
  \/ "num" \in DOMAIN seed /\ seed.num = 0
  \/ "nan" \in DOMAIN seed
  \/ "str" \in DOMAIN seed /\ seed.str = ""

\* Position i is the first of the sequence with a positive weight under w.
FirstPositive(seq, i, w(_)) ==
  /\ i \in 1..Len(seq)
  /\ w(seq[i]) > 0
  /\ \A j \in 1..(i - 1) : ~(w(seq[j]) > 0)

\* C23: state 0 is a fixed point of the stream: with a seed that normalises
\* to 0 the state is 0 before and after every draw, so every draw returns
\* 0; int returns its lower bound, pickWeighted the first item of positive
\* weight and pickTierId the first tier of positive weight, at every draw.
C23_ZeroFixed ==
  ZeroSeed(probe.seed)
  => /\ probe.rng.state = W(0, 0)
     /\ \A op \in {"int", "pickWeighted", "pickTierId"} :
          probe.last[op].done
          => /\ probe.last[op].before.state = W(0, 0)
             /\ probe.last[op].after.state = W(0, 0)
             /\ probe.last[op].after.draws
                  = probe.last[op].before.draws + (IF probe.last[op].err = "" THEN 1 ELSE 0)
     /\ probe.last["int"].done
        => \E a \in -3..3, b \in -3..3 :
             /\ IsFloorOf(a, probe.min) /\ IsFloorOf(b, probe.max)
             /\ probe.last["int"].val = IF a > b THEN b ELSE a
     /\ probe.last["pickWeighted"].done
        => FirstPositive(probe.list, probe.last["pickWeighted"].idx, LAMBDA e : e.weight)
     /\ probe.last["pickTierId"].done
        => \/ /\ probe.last["pickTierId"].err # ""
              /\ \A i \in 1..Len(MapUsed) : MapUsed[i].w <= 0
           \/ \E i \in 1..Len(MapUsed) :
                /\ FirstPositive(MapUsed, i, LAMBDA e : e.w)
                /\ probe.last["pickTierId"].id = MapUsed[i].id

\* With the empty string as seed the three functions were applied one
\* after the other, the last of them at the third draw: int returned the
\* floor of its lower bound -1.5, pickWeighted the third item, the first
\* two having no positive weight, and pickTierId the second key of the
\* override, the first having weight 0.
C23_Witness ==
  /\ probe.seed = [str |-> ""]
  /\ probe.rng.draws = 3
  /\ probe.last["int"].done /\ probe.last["int"].val = -2
  /\ probe.last["pickWeighted"].done /\ probe.last["pickWeighted"].idx = 3
  /\ probe.last["pickTierId"].done /\ probe.last["pickTierId"].id = "unique"
  /\ Len(probe.override) = 4


\* C24: in the controller, from the start of a Spawn click until its
\* spawnPack has settled both buttons are disabled and lastSpawn is null;
\* when it settles both buttons are enabled again and lastSpawn is the new
\* pack on success and null on failure; so every Spawn-to-World click that
\* adds units adds the pack of the latest spawn, which succeeded, never the
\* units of an earlier spawn after a later one has failed.
C24_Controller ==
  /\ [](ui.pending # 0
        => ui.spawnDisabled /\ ui.worldDisabled /\ ui.lastSpawn.isNull)
  /\ [][(ui.pending # 0 /\ ui'.pending = 0)
        => /\ ~ui'.spawnDisabled /\ ~ui'.worldDisabled
           /\ phase[ui.pending] \in {"resolved", "rejected"}
           /\ ui'.lastSpawn = IF phase[ui.pending] = "resolved"
                              THEN [isNull |-> FALSE, pack |-> outcome[ui.pending].pack]
                              ELSE NullSpawn]_vars
  /\ [][ui'.world # ui.world
        => /\ ui.latest # 0 /\ phase[ui.latest] = "resolved"
           /\ ui'.world = Append(ui.world, outcome[ui.latest].pack)]_vars

\* The second call spawned a pack, which a Spawn-to-World click added; the
\* third call failed, and the Spawn-to-World click after it added nothing.
C24_Witness ==
  /\ phase[2] = "resolved" /\ phase[3] = "rejected"
  /\ ui.pending = 0 /\ ui.latest = 3
  /\ ~ui.spawnDisabled /\ ~ui.worldDisabled /\ ui.lastSpawn.isNull
  /\ ui.world = <<outcome[2].pack>> /\ Len(outcome[2].pack) > 0
  /\ ui.refused = <<3>>


\* The minion count call c drew: the draw after the id of its leader,
\* scaled to the count_range of its tier.
DrawnCount(c) ==
  IF trace[c].tierId = "unique" /\ "minions" \in DOMAIN PickedTier(c)
  THEN LET cr == PickedTier(c).minions.count_range.arr
       IN cr[1] + ScaleFloor(Drawn(call[c].seed, 6 + Len(outcome[c].pack[1].affixes)),
                             (cr[2] - cr[1]) + 1)
  ELSE 0

\* C25: when every document retrieval settles, every spawnPack call settles:
\* it resolves with a pack or it rejects.  A call waits for nothing but its
\* retrievals; after the load the affix loop has run at most pool-size
\* times and the minion loop exactly the drawn count.
C25_Settles ==
  /\ \A c \in Calls : (IsSpawn(c) /\ phase[c] # "idle") ~> Settled(c)
  /\ [](\A c \in Calls :
          /\ (IsSpawn(c) /\ phase[c] \notin {"idle", "resolved", "rejected"})
             => \E p \in PathSet : fetch[c][p] = "pending"
          /\ (IsSpawn(c) /\ phase[c] = "resolved")
             => /\ Len(outcome[c].pack) >= 1
                /\ Len(outcome[c].pack[1].affixes) <= Len(PoolOf(c))
                /\ Len(outcome[c].pack) - 1 = DrawnCount(c))

====
